---- MODULE Spec2Model ----
(***************************************************************************)
(* Model of the wisp-flow derivation engine (src/utils/calculations.ts).   *)
(*                                                                         *)
(* Every amount of the program is a JavaScript `number`, an IEEE-754       *)
(* binary64 value.  The engine's results depend on the rounding of each    *)
(* single operation (a * 52 / 12, amount / total * 100, the order of a     *)
(* reduce), so numbers are modelled bit-exactly: a number is a record      *)
(*     [k : "fin" | "inf" | "nan", s : sign, m : significand, e : exponent]*)
(* of value (-1)^s * m * 2^e, where the significand is a natural number    *)
(* below 2^53 kept as a little-endian sequence of 15-bit limbs (TLC's own  *)
(* integers are 32 bits wide).  Every operation computes the exact result  *)
(* and rounds it once, to nearest, ties to even, as the hardware does.     *)
(***************************************************************************)
EXTENDS Integers, Sequences, FiniteSets, TLC

(***************************************************************************)
(* Natural numbers of any size: little-endian sequences of limbs, without  *)
(* high zero limbs; <<>> is 0.                                             *)
(***************************************************************************)
LimbBits == 15
Base == 2^LimbBits

RECURSIVE BNTrim(_)
BNTrim(a) ==
    IF a = <<>> THEN a
    ELSE IF a[Len(a)] = 0 THEN BNTrim(SubSeq(a, 1, Len(a) - 1)) ELSE a

RECURSIVE BNOfInt(_)
BNOfInt(n) == IF n = 0 THEN <<>> ELSE <<n % Base>> \o BNOfInt(n \div Base)

BNLimb(a, i) == IF i <= Len(a) THEN a[i] ELSE 0

RECURSIVE BNAddC(_, _, _, _)
BNAddC(a, b, i, c) ==
    IF i > Len(a) /\ i > Len(b)
    THEN (IF c = 0 THEN <<>> ELSE <<c>>)
    ELSE LET s == BNLimb(a, i) + BNLimb(b, i) + c
         IN  <<s % Base>> \o BNAddC(a, b, i + 1, s \div Base)

BNAdd(a, b) == BNTrim(BNAddC(a, b, 1, 0))

\* a - b, for a >= b
RECURSIVE BNSubC(_, _, _, _)
BNSubC(a, b, i, br) ==
    IF i > Len(a) THEN <<>>
    ELSE LET d == a[i] - BNLimb(b, i) - br
         IN  IF d < 0 THEN <<d + Base>> \o BNSubC(a, b, i + 1, 1)
                      ELSE <<d>> \o BNSubC(a, b, i + 1, 0)

BNSub(a, b) == BNTrim(BNSubC(a, b, 1, 0))

RECURSIVE BNLessAt(_, _, _)
BNLessAt(a, b, i) ==
    IF i = 0 THEN FALSE
    ELSE IF a[i] # b[i] THEN a[i] < b[i] ELSE BNLessAt(a, b, i - 1)

BNLess(a, b) ==
    IF Len(a) # Len(b) THEN Len(a) < Len(b) ELSE BNLessAt(a, b, Len(a))

\* a * d for one limb d
RECURSIVE BNMulSmallC(_, _, _, _)
BNMulSmallC(a, d, i, c) ==
    IF i > Len(a) THEN (IF c = 0 THEN <<>> ELSE <<c>>)
    ELSE LET p == a[i] * d + c
         IN  <<p % Base>> \o BNMulSmallC(a, d, i + 1, p \div Base)

RECURSIVE BNMulR(_, _, _)
BNMulR(a, b, j) ==
    IF j > Len(b) THEN <<>>
    ELSE BNAddC(BNMulSmallC(a, b[j], 1, 0), <<0>> \o BNMulR(a, b, j + 1), 1, 0)

BNMul(a, b) == BNTrim(BNMulR(a, b, 1))

\* a * 2^n
BNShl(a, n) ==
    IF a = <<>> THEN a
    ELSE [i \in 1..(n \div LimbBits) |-> 0]
            \o BNTrim(BNMulSmallC(a, 2^(n % LimbBits), 1, 0))

\* floor(a / 2^n)
BNShr(a, n) ==
    LET q == n \div LimbBits
        r == n % LimbBits
        t == IF q >= Len(a) THEN <<>> ELSE SubSeq(a, q + 1, Len(a))
    IN  BNTrim([i \in 1..Len(t) |->
                  (t[i] \div 2^r) + (BNLimb(t, i + 1) % 2^r) * 2^(LimbBits - r)])

RECURSIVE BitLenSmall(_)
BitLenSmall(x) == IF x = 0 THEN 0 ELSE 1 + BitLenSmall(x \div 2)

BNBitLen(a) ==
    IF a = <<>> THEN 0 ELSE LimbBits * (Len(a) - 1) + BitLenSmall(a[Len(a)])

\* bit i of a (bit 0 is the lowest)
BNBit(a, i) == (BNLimb(a, i \div LimbBits + 1) \div 2^(i % LimbBits)) % 2

\* whether any of the n lowest bits of a is set
BNLowNonzero(a, n) ==
    \E j \in 1..Len(a) :
        \/ j <= n \div LimbBits /\ a[j] # 0
        \/ j = n \div LimbBits + 1 /\ a[j] % 2^(n % LimbBits) # 0

\* d + bit for an even d
BNSetLow(d, bit) ==
    IF bit = 0 THEN d
    ELSE IF d = <<>> THEN <<1>> ELSE [d EXCEPT ![1] = @ + 1]

\* 2 * a + bit
BNDouble(a, bit) == BNSetLow(BNAddC(a, a, 1, 0), bit)

\* long division: the state after the quotient q met the partial remainder r2
BNDivPut(d, q, r2) ==
    IF BNLess(r2, d)
    THEN [q |-> BNDouble(q, 0), r |-> r2]
    ELSE [q |-> BNDouble(q, 1), r |-> BNSub(r2, d)]

\* long division: the state [q, r] after bit i of n (no step below bit 0)
BNDivBit(n, d, st, i) ==
    IF i < 0 THEN st
    ELSE BNDivPut(d, st.q, BNDouble(st.r, BNBit(n, i)))

\* long division from bit i of n down to bit 0, four bits a round; the
\* remainder st.r stays below d throughout
RECURSIVE BNDivStep(_, _, _, _)
BNDivStep(n, d, st, i) ==
    IF i < 0 \/ ~BNLess(st.r, d) THEN st
    ELSE BNDivStep(n, d,
                   BNDivBit(n, d,
                     BNDivBit(n, d,
                       BNDivBit(n, d,
                         BNDivBit(n, d, st, i), i - 1), i - 2), i - 3),
                   i - 4)

\* [q |-> floor(n / d), r |-> n mod d], for d > 0
BNDivFrom(n, d, top) ==
    IF top <= 0 THEN [q |-> <<>>, r |-> n]
    ELSE BNDivStep(n, d, [q |-> <<>>, r |-> BNShr(n, top)], top - 1)

BNDivMod(n, d) == BNDivFrom(n, d, BNBitLen(n) - (BNBitLen(d) - 1))

(***************************************************************************)
(* The JavaScript number: IEEE-754 binary64.                               *)
(***************************************************************************)
Precision == 53
MinExp == 0 - 1074
MaxBits == 1024

NaN == [k |-> "nan", s |-> 0, m |-> <<>>, e |-> 0]
Inf(s) == [k |-> "inf", s |-> s, m |-> <<>>, e |-> 0]
Zero(s) == [k |-> "fin", s |-> s, m |-> <<>>, e |-> 0]
Infinity == Inf(0)

IsNaN(x) == x.k = "nan"
IsInf(x) == x.k = "inf"
IsZero(x) == x.k = "fin" /\ x.m = <<>>

\* The binary64 nearest to (-1)^s * (M + f) * 2^E, ties to even, where f = 0
\* when sticky is FALSE and 0 < f < 1 otherwise (sticky only with M >= 2^54).
Max(a, b) == IF a > b THEN a ELSE b

\* the number (-1)^s * m * 2^e for m < 2^53: zero, finite or out of range
Finite(s, m, e) ==
    IF m = <<>> THEN Zero(s)
    ELSE IF BNBitLen(m) + e > MaxBits THEN Inf(s)
    ELSE [k |-> "fin", s |-> s, m |-> m, e |-> e]

\* the significand q2 <= 2^53 after rounding, brought back to 53 bits
Renormalize(s, q2, e) ==
    IF BNBitLen(q2) > Precision THEN Finite(s, BNShr(q2, 1), e + 1)
                                ELSE Finite(s, q2, e)

\* q rounded to nearest, ties to even: g is the first bit dropped, rest tells
\* whether anything lies below it
RoundUp(q, g, rest) ==
    IF g = 1 /\ (rest \/ BNBit(q, 0) = 1) THEN BNAdd(q, <<1>>) ELSE q

\* Round, dropping the sh lowest bits of M
RoundAt(s, M, E, sticky, sh) ==
    IF sh <= 0
    THEN [k |-> "fin", s |-> s, m |-> BNShl(M, 0 - sh), e |-> E + sh]
    ELSE Renormalize(s,
                     RoundUp(BNShr(M, sh), BNBit(M, sh - 1),
                             sticky \/ BNLowNonzero(M, sh - 1)),
                     E + sh)

Round(s, M, E, sticky) ==
    IF M = <<>> THEN Zero(s)
    ELSE RoundAt(s, M, E, sticky, Max(BNBitLen(M) - Precision, MinExp - E))

\* a whole number 0 <= n < 2^31 as a number
Num(n) == Round(0, BNOfInt(n), 0, FALSE)

NumNeg(x) == IF IsNaN(x) THEN x ELSE [x EXCEPT !.s = 1 - @]

Xor(a, b) == IF a = b THEN 0 ELSE 1

\* x * y
NumMul(x, y) ==
    IF IsNaN(x) \/ IsNaN(y) THEN NaN
    ELSE IF IsInf(x) \/ IsInf(y)
         THEN (IF IsZero(x) \/ IsZero(y) THEN NaN ELSE Inf(Xor(x.s, y.s)))
    ELSE Round(Xor(x.s, y.s), BNMul(x.m, y.m), x.e + y.e, FALSE)

\* the quotient qr.q with a remainder qr.r, times 2^e, rounded once
DivRound(s, qr, e) == Round(s, qr.q, e, qr.r # <<>>)

\* x / y for finite non-zero x, y: x.m * 2^k / y.m has at least 55 bits
DivScaled(x, y, k) ==
    DivRound(Xor(x.s, y.s), BNDivMod(BNShl(x.m, k), y.m), x.e - y.e - k)

\* x / y
NumDiv(x, y) ==
    IF IsNaN(x) \/ IsNaN(y) THEN NaN
    ELSE IF IsInf(x) THEN (IF IsInf(y) THEN NaN ELSE Inf(Xor(x.s, y.s)))
    ELSE IF IsInf(y) THEN Zero(Xor(x.s, y.s))
    ELSE IF IsZero(y) THEN (IF IsZero(x) THEN NaN ELSE Inf(Xor(x.s, y.s)))
    ELSE IF IsZero(x) THEN Zero(Xor(x.s, y.s))
    ELSE DivScaled(x, y, Precision + 2 + BNBitLen(y.m) - BNBitLen(x.m))

\* |x| < |y| for finite x, y
MagLess(x, y) ==
    IF IsZero(y) THEN FALSE
    ELSE IF IsZero(x) THEN TRUE
    ELSE LET lx == BNBitLen(x.m) + x.e
             ly == BNBitLen(y.m) + y.e
         IN  IF lx # ly THEN lx < ly
             ELSE IF x.e >= y.e THEN BNLess(BNShl(x.m, x.e - y.e), y.m)
                                ELSE BNLess(x.m, BNShl(y.m, y.e - x.e))

\* (-1)^sx * X * 2^e + (-1)^sy * Y * 2^e for X, Y > 0
AddMagnitudes(sx, X, sy, Y, e) ==
    IF sx # sy /\ X = Y THEN Zero(0)
    ELSE Round(IF sx # sy /\ BNLess(X, Y) THEN sy ELSE sx,
               IF sx = sy THEN BNAdd(X, Y)
               ELSE IF BNLess(X, Y) THEN BNSub(Y, X) ELSE BNSub(X, Y),
               e, FALSE)

\* x + y for finite non-zero x, y with x.e >= y.e
AddAligned(x, y) ==
    IF x.e - y.e > Precision + 11 THEN x
    ELSE AddMagnitudes(x.s, BNShl(x.m, x.e - y.e), y.s, y.m, y.e)

\* x + y
NumAdd(x, y) ==
    IF IsNaN(x) \/ IsNaN(y) THEN NaN
    ELSE IF IsInf(x) THEN (IF IsInf(y) /\ x.s # y.s THEN NaN ELSE x)
    ELSE IF IsInf(y) THEN y
    ELSE IF IsZero(x) /\ IsZero(y) THEN Zero(IF x.s = 1 /\ y.s = 1 THEN 1 ELSE 0)
    ELSE IF IsZero(x) THEN y
    ELSE IF IsZero(y) THEN x
    ELSE AddAligned(IF x.e >= y.e THEN x ELSE y, IF x.e >= y.e THEN y ELSE x)

\* x - y
NumSub(x, y) == NumAdd(x, NumNeg(y))

\* x === y
NumEq(x, y) ==
    /\ ~IsNaN(x)
    /\ ~IsNaN(y)
    /\ \/ x = y
       \/ IsZero(x) /\ IsZero(y)

\* x < y
NumLt(x, y) ==
    IF IsNaN(x) \/ IsNaN(y) THEN FALSE
    ELSE IF IsZero(x) /\ IsZero(y) THEN FALSE
    ELSE IF x.s # y.s THEN x.s = 1
    ELSE IF IsInf(x) THEN (x.s = 1 /\ ~IsInf(y))
    ELSE IF IsInf(y) THEN y.s = 0
    ELSE IF x.s = 0 THEN MagLess(x, y) ELSE MagLess(y, x)

\* x > y,  x <= y
NumGt(x, y) == NumLt(y, x)
NumLe(x, y) == NumLt(x, y) \/ NumEq(x, y)

\* Math.min(x, y): NaN when either is NaN, and -0 below +0
NumMin(x, y) ==
    IF IsNaN(x) \/ IsNaN(y) THEN NaN
    ELSE IF NumLt(x, y) THEN x
    ELSE IF NumLt(y, x) THEN y
    ELSE IF x.s = 1 THEN x ELSE y

\* the whole number next above the finite, non-zero x with x.e < 0: the
\* magnitude is cut to its whole part q, and one is added for a positive x
\* with a fraction
CeilOf(s, q, fraction) ==
    Round(s, IF s = 0 /\ fraction THEN BNAdd(q, <<1>>) ELSE q, 0, FALSE)

\* Math.ceil(x)
NumCeil(x) ==
    IF IsNaN(x) \/ IsInf(x) \/ IsZero(x) THEN x
    ELSE IF x.e >= 0 THEN x
    ELSE CeilOf(x.s, BNShr(x.m, 0 - x.e), BNLowNonzero(x.m, 0 - x.e))

\* the truthiness of a number: 0, -0 and NaN are falsy
Truthy(x) == ~IsNaN(x) /\ ~IsZero(x)

(***************************************************************************)
(* Map, which iterates in insertion order.                                  *)
(***************************************************************************)
\* a Map is the sequence of its [key, value] entries in insertion order
MapHas(map, key) == \E i \in 1..Len(map) : map[i].key = key

\* the position of key in the map, 0 when it is absent
MapIndex(map, key) ==
    IF MapHas(map, key)
    THEN (CHOOSE i \in 1..Len(map) : map[i].key = key)
    ELSE 0

\* map.get(key) || 0
OrZero(map, i) ==
    IF i # 0 /\ Truthy(map[i].value) THEN map[i].value ELSE Zero(0)

MapGetOrZero(map, key) == OrZero(map, MapIndex(map, key))

\* map.set(key, value): an existing key keeps its position
MapSet(map, key, value) ==
    IF MapHas(map, key)
    THEN [i \in 1..Len(map) |->
            IF map[i].key = key THEN [key |-> key, value |-> value] ELSE map[i]]
    ELSE Append(map, [key |-> key, value |-> value])

(***************************************************************************)
(* The state: a caller picks one function of the module and its arguments  *)
(* (pc = "call"), and the call computes the result (pc = "done").  A       *)
(* caller of a results composer may call it again; earlier then holds the  *)
(* call made before, [fn, args, result].  The module keeps no state of its *)
(* own between calls.                                                      *)
(***************************************************************************)
VARIABLES pc, fn, args, result, earlier, db, store, page, calls

\* the call of a function of the engine
callVars == <<pc, fn, args, result, earlier>>

\* the application around the engine: the IndexedDB tables, the zustand
\* store, the state of the Monthly Income page and the async calls in flight
appVars == <<db, store, page, calls>>

vars == <<pc, fn, args, result, earlier, db, store, page, calls>>

\* the tables of WisprFlowDB a calculation reads, each in key order, and the
\* number of identifiers crypto.randomUUID() has issued
EmptyDb ==
    [incomeSources |-> <<>>, savings |-> <<>>, settings |-> <<>>,
     monthlyIncomes |-> <<>>, monthlySavings |-> <<>>, issued |-> 0]

\* the store as created; a field that is null holds <<>>, a field that is
\* set holds <<value>>
InitialStore ==
    [incomeSources |-> <<>>, savings |-> <<>>, settings |-> <<>>,
     calculations |-> <<>>, currentMonthIncomes |-> <<>>,
     currentMonthSavings |-> <<>>, yearlyIncomes |-> <<>>,
     yearlySavings |-> <<>>, isLoading |-> FALSE, error |-> <<>>]

\* the page's monthlyData and monthlySavingsData Maps as created
InitialPage == [monthlyData |-> <<>>, monthlySavingsData |-> <<>>]

\* the application is not running
NoApp ==
    /\ db = EmptyDb
    /\ store = InitialStore
    /\ page = InitialPage
    /\ calls = <<>>

NoResult == "none"

\* no call made before
NoEarlier == [fn |-> "none", args |-> "none", result |-> "none"]

HasEarlier == earlier.fn # "none"

(***************************************************************************)
(* src/utils/calculations.ts                                               *)
(***************************************************************************)
\* variant: a week counted as a quarter of a month
convertToMonthlyFourWeeks(amount, frequency) ==
    CASE frequency = "monthly"  -> amount
      [] frequency = "weekly"   -> NumMul(amount, Num(4))
      [] frequency = "yearly"   -> NumDiv(amount, Num(12))
      [] frequency = "one_time" -> Zero(0)
      [] OTHER                  -> Zero(0)

\* variant: the default branch passes the amount through
convertToMonthlyDefaultAmount(amount, frequency) ==
    CASE frequency = "monthly"  -> amount
      [] frequency = "weekly"   -> NumDiv(NumMul(amount, Num(52)), Num(12))
      [] frequency = "yearly"   -> NumDiv(amount, Num(12))
      [] frequency = "one_time" -> Zero(0)
      [] OTHER                  -> amount

convertToMonthly(amount, frequency) ==
    CASE frequency = "monthly"  -> amount
      [] frequency = "weekly"   -> NumDiv(NumMul(amount, Num(52)), Num(12))
      [] frequency = "yearly"   -> NumDiv(amount, Num(12))
      [] frequency = "one_time" -> Zero(0)
      [] OTHER                  -> Zero(0)

\* variant: the amount taken as monthly whatever the frequency
convertToYearlyAsMonthly(amount, frequency) == NumMul(amount, Num(12))

convertToYearly(amount, frequency) ==
    NumMul(convertToMonthly(amount, frequency), Num(12))

IsActive(record) == record.isActive

AddMonthly(total, source) ==
    NumAdd(total, convertToMonthly(source.amount, source.frequency))

\* sources.reduce(AddMonthly, total), from index i on
RECURSIVE ReduceMonthly(_, _, _)
ReduceMonthly(sources, i, total) ==
    IF i > Len(sources) THEN total
    ELSE ReduceMonthly(sources, i + 1, AddMonthly(total, sources[i]))

\* variant: without the filter on isActive
calculateMonthlyIncomeOfAll(sources) == ReduceMonthly(sources, 1, Zero(0))

calculateMonthlyIncome(sources) ==
    ReduceMonthly(SelectSeq(sources, IsActive), 1, Zero(0))

calculateYearlyIncome(sources) ==
    NumMul(calculateMonthlyIncome(sources), Num(12))

\* activeSources.forEach(...) on the Map breakdown
GroupSource(breakdown, source) ==
    LET monthlyAmount == convertToMonthly(source.amount, source.frequency)
        current       == MapGetOrZero(breakdown, source.type)
    IN  MapSet(breakdown, source.type, NumAdd(current, monthlyAmount))

\* sources.forEach(GroupSource), from index i on
RECURSIVE ForEachSource(_, _, _)
ForEachSource(sources, i, breakdown) ==
    IF i > Len(sources) THEN breakdown
    ELSE ForEachSource(sources, i + 1, GroupSource(breakdown, sources[i]))

\* variant: without the guard totalMonthly > 0
BreakdownRowsUnguarded(breakdown, totalMonthly) ==
    [i \in 1..Len(breakdown) |->
        [type       |-> breakdown[i].key,
         amount     |-> breakdown[i].value,
         percentage |-> NumMul(NumDiv(breakdown[i].value, totalMonthly),
                               Num(100))]]

\* Array.from(breakdown.entries()).map(...)
BreakdownRows(breakdown, totalMonthly) ==
    [i \in 1..Len(breakdown) |->
        [type       |-> breakdown[i].key,
         amount     |-> breakdown[i].value,
         percentage |-> IF NumGt(totalMonthly, Zero(0))
                        THEN NumMul(NumDiv(breakdown[i].value, totalMonthly),
                                    Num(100))
                        ELSE Zero(0)]]

\* variant: the grouping runs over all sources, the total over the active ones
calculateIncomeBreakdownOfAll(sources) ==
    BreakdownRows(ForEachSource(sources, 1, <<>>),
                  calculateMonthlyIncome(sources))

calculateIncomeBreakdown(sources) ==
    LET activeSources == SelectSeq(sources, IsActive)
        totalMonthly  == calculateMonthlyIncome(activeSources)
        breakdown     == ForEachSource(activeSources, 1, <<>>)
    IN  BreakdownRows(breakdown, totalMonthly)

\* variant: the percentage taken as a fraction
calculateMonthlySavingsUnscaled(monthlyIncome, savingsPercentage) ==
    NumMul(monthlyIncome, savingsPercentage)

calculateMonthlySavings(monthlyIncome, savingsPercentage) ==
    NumDiv(NumMul(monthlyIncome, savingsPercentage), Num(100))

calculateYearlySavings(monthlyIncome, savingsPercentage) ==
    NumMul(calculateMonthlySavings(monthlyIncome, savingsPercentage), Num(12))

\* variant: alreadySaved left out of the sum
calculateSavingsProjectionFromCurrent(currentSavings, alreadySaved, monthlyIncome, savingsPercentage, years) ==
    NumAdd(currentSavings,
           NumMul(calculateYearlySavings(monthlyIncome, savingsPercentage),
                  years))

calculateSavingsProjection(currentSavings, alreadySaved, monthlyIncome, savingsPercentage, years) ==
    LET yearlySavings == calculateYearlySavings(monthlyIncome, savingsPercentage)
        totalSaved    == NumMul(yearlySavings, years)
    IN  NumAdd(NumAdd(currentSavings, alreadySaved), totalSaved)

AddAmount(total, income) == NumAdd(total, income.amount)

\* incomes.reduce(AddAmount, total), from index i on
RECURSIVE ReduceAmount(_, _, _)
ReduceAmount(incomes, i, total) ==
    IF i > Len(incomes) THEN total
    ELSE ReduceAmount(incomes, i + 1, AddAmount(total, incomes[i]))

IsActiveRecurring(record) == record.isActive /\ record.isRecurring

\* variant: only the recurring entries counted
calculateMonthlyIncomeFromRecurring(monthlyIncomes) ==
    ReduceAmount(SelectSeq(monthlyIncomes, IsActiveRecurring), 1, Zero(0))

calculateMonthlyIncomeFromData(monthlyIncomes) ==
    ReduceAmount(SelectSeq(monthlyIncomes, IsActive), 1, Zero(0))

\* yearData.get(month) || []
MonthIncomes(yearData, month) ==
    IF month \in DOMAIN yearData THEN yearData[month] ELSE <<>>

\* the loop for (month = 1; month <= 12; month++)
RECURSIVE YearLoop(_, _, _)
YearLoop(yearData, month, total) ==
    IF month <= 12
    THEN YearLoop(yearData, month + 1,
                  NumAdd(total,
                         calculateMonthlyIncomeFromData(
                             MonthIncomes(yearData, month))))
    ELSE total

\* variant: the months counted from 0 to 11
RECURSIVE YearLoopBelow(_, _, _)
YearLoopBelow(yearData, month, total) ==
    IF month < 12
    THEN YearLoopBelow(yearData, month + 1,
                       NumAdd(total,
                              calculateMonthlyIncomeFromData(
                                  MonthIncomes(yearData, month))))
    ELSE total

calculateYearlyIncomeFromZero(yearData) == YearLoopBelow(yearData, 0, Zero(0))

calculateYearlyIncomeFromData(yearData) == YearLoop(yearData, 1, Zero(0))

GroupIncome(breakdown, income) ==
    LET current == MapGetOrZero(breakdown, income.type)
    IN  MapSet(breakdown, income.type, NumAdd(current, income.amount))

\* incomes.forEach(GroupIncome), from index i on
RECURSIVE ForEachIncome(_, _, _)
ForEachIncome(incomes, i, breakdown) ==
    IF i > Len(incomes) THEN breakdown
    ELSE ForEachIncome(incomes, i + 1, GroupIncome(breakdown, incomes[i]))

calculateIncomeBreakdownFromData(monthlyIncomes) ==
    LET activeIncomes == SelectSeq(monthlyIncomes, IsActive)
        totalMonthly  == calculateMonthlyIncomeFromData(activeIncomes)
        breakdown     == ForEachIncome(activeIncomes, 1, <<>>)
    IN  BreakdownRows(breakdown, totalMonthly)

\* the array [1, 3, 5, 10]
projectionYears == <<Num(1), Num(3), Num(5), Num(10)>>

\* variant: saved holds the total, baseline included
ProjectionWithBaseline(currentSavings, alreadySaved, monthlyIncome, savingsPercentage, yearlySavings, years) ==
    [years |-> years,
     total |-> calculateSavingsProjection(currentSavings, alreadySaved,
                                          monthlyIncome, savingsPercentage,
                                          years),
     saved |-> calculateSavingsProjection(currentSavings, alreadySaved,
                                          monthlyIncome, savingsPercentage,
                                          years)]

\* the callback of projectionYears.map(...)
Projection(currentSavings, alreadySaved, monthlyIncome, savingsPercentage, yearlySavings, years) ==
    [years |-> years,
     total |-> calculateSavingsProjection(currentSavings, alreadySaved,
                                          monthlyIncome, savingsPercentage,
                                          years),
     saved |-> NumMul(yearlySavings, years)]

\* variant: the monthly income adds to that of the call made before
ResultsAccumulated(monthlyIncome, yearlyIncome, currentSavings, alreadySaved, savingsPercentage, incomeBreakdown) ==
    [monthlyIncome   |-> IF HasEarlier
                         THEN NumAdd(earlier.result.monthlyIncome,
                                     monthlyIncome)
                         ELSE monthlyIncome,
     yearlyIncome    |-> yearlyIncome,
     monthlySavings  |-> calculateMonthlySavings(monthlyIncome,
                                                 savingsPercentage),
     yearlySavings   |-> calculateYearlySavings(monthlyIncome,
                                                savingsPercentage),
     projections     |->
        [i \in 1..Len(projectionYears) |->
            Projection(currentSavings, alreadySaved, monthlyIncome,
                       savingsPercentage,
                       calculateYearlySavings(monthlyIncome,
                                              savingsPercentage),
                       projectionYears[i])],
     incomeBreakdown |-> incomeBreakdown]

\* what both composers do once monthlyIncome, yearlyIncome and the breakdown
\* are computed: the savings, the projections and the record returned
Results(monthlyIncome, yearlyIncome, currentSavings, alreadySaved, savingsPercentage, incomeBreakdown) ==
    [monthlyIncome   |-> monthlyIncome,
     yearlyIncome    |-> yearlyIncome,
     monthlySavings  |-> calculateMonthlySavings(monthlyIncome,
                                                 savingsPercentage),
     yearlySavings   |-> calculateYearlySavings(monthlyIncome,
                                                savingsPercentage),
     projections     |->
        [i \in 1..Len(projectionYears) |->
            Projection(currentSavings, alreadySaved, monthlyIncome,
                       savingsPercentage,
                       calculateYearlySavings(monthlyIncome,
                                              savingsPercentage),
                       projectionYears[i])],
     incomeBreakdown |-> incomeBreakdown]

\* the entries of the months from month on, one list after the other
RECURSIVE YearEntries(_, _)
YearEntries(yearData, month) ==
    IF month > 12 THEN <<>>
    ELSE MonthIncomes(yearData, month) \o YearEntries(yearData, month + 1)

\* variant: the breakdown taken over the entries of the whole year
calculateResultsFromYear(currentMonthIncomes, yearData, currentSavings, alreadySaved, savingsPercentage) ==
    Results(calculateMonthlyIncomeFromData(currentMonthIncomes),
            calculateYearlyIncomeFromData(yearData),
            currentSavings, alreadySaved, savingsPercentage,
            calculateIncomeBreakdownFromData(YearEntries(yearData, 1)))

calculateResultsFromMonthlyData(currentMonthIncomes, yearData, currentSavings, alreadySaved, savingsPercentage) ==
    Results(calculateMonthlyIncomeFromData(currentMonthIncomes),
            calculateYearlyIncomeFromData(yearData),
            currentSavings, alreadySaved, savingsPercentage,
            calculateIncomeBreakdownFromData(currentMonthIncomes))

calculateResults(sources, currentSavings, alreadySaved, savingsPercentage) ==
    Results(calculateMonthlyIncome(sources), calculateYearlyIncome(sources),
            currentSavings, alreadySaved, savingsPercentage,
            calculateIncomeBreakdown(sources))

createWhatIfScenario(monthlyIncome, savingsPercentage, currentSavings, alreadySaved) ==
    [savingsPercentage |-> savingsPercentage,
     monthlyIncome     |-> monthlyIncome,
     monthlySavings    |-> calculateMonthlySavings(monthlyIncome,
                                                   savingsPercentage),
     projection5Years  |-> calculateSavingsProjection(
                               currentSavings, alreadySaved, monthlyIncome,
                               savingsPercentage, Num(5)),
     projection10Years |-> calculateSavingsProjection(
                               currentSavings, alreadySaved, monthlyIncome,
                               savingsPercentage, Num(10))]

\* the default value of the parameter percentages
DefaultPercentages == <<Num(10), Num(15), Num(20), Num(30), Num(40), Num(50)>>

\* an argument that may be left out is [given, value]; the default stands in
\* for one not given
OrDefault(argument, default) ==
    IF argument.given THEN argument.value ELSE default

\* percentages.map(...)
ScenariosOf(monthlyIncome, currentSavings, alreadySaved, list) ==
    [i \in 1..Len(list) |->
        createWhatIfScenario(monthlyIncome, list[i], currentSavings,
                             alreadySaved)]

\* variant: every scenario computed with the first percentage of the list
createWhatIfScenariosOfFirst(monthlyIncome, currentSavings, alreadySaved, percentages) ==
    ScenariosOf(monthlyIncome, currentSavings, alreadySaved,
                [i \in 1..Len(OrDefault(percentages, DefaultPercentages)) |->
                    OrDefault(percentages, DefaultPercentages)[1]])

createWhatIfScenarios(monthlyIncome, currentSavings, alreadySaved, percentages) ==
    ScenariosOf(monthlyIncome, currentSavings, alreadySaved,
                OrDefault(percentages, DefaultPercentages))

\* variant: without the clamp at 100
calculateGoalProgressUnclamped(current, target) ==
    IF NumEq(target, Zero(0)) THEN Zero(0)
    ELSE NumMul(NumDiv(current, target), Num(100))

calculateGoalProgress(current, target) ==
    IF NumEq(target, Zero(0)) THEN Zero(0)
    ELSE NumMin(NumMul(NumDiv(current, target), Num(100)), Num(100))

\* variant: Math.floor in the place of Math.ceil
MonthsForFloor(remaining, monthlySavings) ==
    IF NumLe(remaining, Zero(0)) THEN Zero(0)
    ELSE NumNeg(NumCeil(NumNeg(NumDiv(remaining, monthlySavings))))

\* what calculateMonthsToGoal returns once remaining is known
MonthsFor(remaining, monthlySavings) ==
    IF NumLe(remaining, Zero(0)) THEN Zero(0)
    ELSE NumCeil(NumDiv(remaining, monthlySavings))

\* variant: the goal already met is looked at first
calculateMonthsToGoalMetFirst(currentAmount, targetAmount, monthlySavings) ==
    IF NumLe(NumSub(targetAmount, currentAmount), Zero(0)) THEN Zero(0)
    ELSE IF NumEq(monthlySavings, Zero(0)) THEN Infinity
    ELSE NumCeil(NumDiv(NumSub(targetAmount, currentAmount), monthlySavings))

calculateMonthsToGoal(currentAmount, targetAmount, monthlySavings) ==
    IF NumEq(monthlySavings, Zero(0)) THEN Infinity
    ELSE MonthsFor(NumSub(targetAmount, currentAmount), monthlySavings)

(***************************************************************************)
(* The inputs the calls are drawn from.                                    *)
(***************************************************************************)
MaxSources == 3
MaxIncomes == 3
MaxMonths == 2

\* the decimal literal n / d (d a power of ten), as the parser rounds it
Dec(n, d) == NumDiv(Num(n), Num(d))

\* "biweekly" stands for any value outside the IncomeFrequency enum
Frequencies == {"monthly", "weekly", "yearly", "one_time", "biweekly"}

Amounts == {Num(0), Num(100), Num(1200), Num(3000), Dec(1, 10), Dec(24999, 100)}

Source(amount, frequency, type, isActive) ==
    [amount |-> amount, frequency |-> frequency, type |-> type,
     isActive |-> isActive]

Salary3000 == Source(Num(3000), "monthly", "salary", TRUE)
Investment1200 == Source(Num(1200), "yearly", "investment", TRUE)
Freelance100 == Source(Num(100), "weekly", "freelance", TRUE)
InactiveSalary100 == Source(Num(100), "monthly", "salary", FALSE)
OneTime500 == Source(Num(500), "one_time", "freelance", TRUE)
Biweekly100 == Source(Num(100), "biweekly", "salary", TRUE)

SourcePool ==
    { Salary3000, Investment1200, Freelance100, InactiveSalary100,
      OneTime500, Biweekly100 }

Income(amount, type, isActive, isRecurring, incomeSourceId) ==
    [amount |-> amount, type |-> type, isActive |-> isActive,
     isRecurring |-> isRecurring, incomeSourceId |-> incomeSourceId]

\* "null" stands for an entry that comes from no income source
EntrySalary == Income(Num(3000), "salary", TRUE, TRUE, "s1")
EntryInvestment == Income(Num(100), "investment", TRUE, TRUE, "s2")
EntryFreelance == Income(Dec(43333, 100), "freelance", TRUE, FALSE, "null")
EntryInactive == Income(Num(500), "salary", FALSE, TRUE, "s1")
EntryZero == Income(Num(0), "other", TRUE, FALSE, "null")

IncomePool ==
    { EntrySalary, EntryInvestment, EntryFreelance, EntryInactive, EntryZero }

\* what one month of a year can hold
MonthLists ==
    { <<>>, <<EntrySalary, EntryInactive>>, <<EntryFreelance>> }

Months == 1..12

SeqsUpTo(S, n) == UNION { [1..k -> S] : k \in 0..n }

\* the Maps month -> entries with at most MaxMonths months present
YearDatas ==
    UNION { [P -> MonthLists] :
              P \in { Q \in SUBSET Months : Cardinality(Q) <= MaxMonths } }

Incomes == {Num(0), Num(3100), Num(5000), convertToMonthly(Num(100), "weekly")}
Percentages == {Num(0), Num(10), Num(15), Num(20), Dec(125, 10), Num(100)}
CurrentSavings == {Num(0), Num(1000), Dec(10005, 10)}
AlreadySaved == {Num(0), Num(500)}
Years == {NumNeg(Num(1)), Num(0), Num(1), Num(3), Num(5), Num(10)}

\* what the composers are called with
ComposerMonths ==
    { <<>>, <<EntrySalary, EntryInactive>>,
      <<EntrySalary, EntryInvestment, EntryFreelance>> }

ComposerYears ==
    { <<>>,
      [m \in {1} |-> <<EntryInvestment>>],
      [m \in {1, 12} |-> IF m = 1 THEN <<EntrySalary, EntryInactive>>
                                  ELSE <<EntryFreelance>>] }

ComposerSources ==
    { <<>>, <<Salary3000, Investment1200>>, <<Freelance100, InactiveSalary100>>,
      <<OneTime500>> }

ComposerSavings == {Num(0), Num(1000)}
ComposerAlreadySaved == {Num(500)}
ComposerPercentages == {Num(10), Dec(125, 10)}

\* an argument given, and one left out
Given(value) == [given |-> TRUE, value |-> value]
NotGiven == [given |-> FALSE, value |-> <<>>]

PercentageLists ==
    { NotGiven, Given(<<>>), Given(<<Num(10), Num(20)>>),
      Given(<<Num(20), Num(10), Num(20)>>), Given(<<Dec(125, 10)>>) }

ScenarioIncomes == {Num(0), Num(5000), convertToMonthly(Num(100), "weekly")}

GoalAmounts ==
    {NumNeg(Num(50)), Num(0), Num(50), Num(100), Num(150), Num(1000),
     Dec(1, 10), Num(1), Dec(106, 100)}

GoalSavings ==
    {NumNeg(Num(100)), Num(0), NumNeg(Num(0)), Num(100), Num(250), Num(3),
     Dec(1, 10), Dec(1, 100)}

(***************************************************************************)
(* The state machine.                                                      *)
(***************************************************************************)

ArgsOf(f) ==
    CASE f \in {"convertToMonthly", "convertToYearly"}
           -> [amount : Amounts, frequency : Frequencies]
      [] f \in {"calculateMonthlyIncome", "calculateIncomeBreakdown"}
           -> [sources : SeqsUpTo(SourcePool, MaxSources)]
      [] f \in {"calculateMonthlyIncomeFromData",
                "calculateIncomeBreakdownFromData"}
           -> [monthlyIncomes : SeqsUpTo(IncomePool, MaxIncomes)]
      [] f = "calculateYearlyIncomeFromData"
           -> [yearData : YearDatas]
      [] f \in {"calculateMonthlySavings", "calculateYearlySavings"}
           -> [monthlyIncome : Incomes, savingsPercentage : Percentages]
      [] f = "calculateSavingsProjection"
           -> [currentSavings : CurrentSavings, alreadySaved : AlreadySaved,
               monthlyIncome : Incomes, savingsPercentage : Percentages,
               years : Years]
      [] f = "calculateResultsFromMonthlyData"
           -> [currentMonthIncomes : ComposerMonths, yearData : ComposerYears,
               currentSavings : ComposerSavings,
               alreadySaved : ComposerAlreadySaved,
               savingsPercentage : ComposerPercentages]
      [] f = "calculateResults"
           -> [sources : ComposerSources,
               currentSavings : ComposerSavings,
               alreadySaved : ComposerAlreadySaved,
               savingsPercentage : ComposerPercentages]
      [] f = "createWhatIfScenario"
           -> [monthlyIncome : ScenarioIncomes,
               savingsPercentage : Percentages,
               currentSavings : ComposerSavings, alreadySaved : AlreadySaved]
      [] f = "createWhatIfScenarios"
           -> [monthlyIncome : ScenarioIncomes,
               currentSavings : ComposerSavings, alreadySaved : AlreadySaved,
               percentages : PercentageLists]
      [] f = "calculateGoalProgress"
           -> [current : GoalAmounts, target : GoalAmounts]
      [] f = "calculateMonthsToGoal"
           -> [currentAmount : GoalAmounts, targetAmount : GoalAmounts,
               monthlySavings : GoalSavings]

Functions ==
    {"convertToMonthly", "convertToYearly", "calculateMonthlyIncome",
     "calculateIncomeBreakdown", "calculateSavingsProjection",
     "calculateMonthlySavings", "calculateYearlySavings",
     "calculateMonthlyIncomeFromData", "calculateYearlyIncomeFromData",
     "calculateIncomeBreakdownFromData", "calculateResultsFromMonthlyData",
     "calculateResults", "createWhatIfScenario", "createWhatIfScenarios",
     "calculateGoalProgress", "calculateMonthsToGoal"}

Composers == {"calculateResultsFromMonthlyData", "calculateResults"}

Init ==
    /\ pc = "call"
    /\ fn \in Functions
    /\ args \in ArgsOf(fn)
    /\ result = NoResult
    /\ earlier = NoEarlier
    /\ NoApp

Return(f, value) ==
    /\ pc = "call"
    /\ fn = f
    /\ pc' = "done"
    /\ result' = value
    /\ UNCHANGED <<fn, args, earlier>>
    /\ UNCHANGED appVars

CallConvertToMonthly ==
    Return("convertToMonthly", convertToMonthly(args.amount, args.frequency))

CallConvertToYearly ==
    Return("convertToYearly", convertToYearly(args.amount, args.frequency))

CallCalculateMonthlyIncome ==
    Return("calculateMonthlyIncome", calculateMonthlyIncome(args.sources))

CallCalculateIncomeBreakdown ==
    Return("calculateIncomeBreakdown", calculateIncomeBreakdown(args.sources))

CallCalculateMonthlySavings ==
    Return("calculateMonthlySavings",
           calculateMonthlySavings(args.monthlyIncome, args.savingsPercentage))

CallCalculateYearlySavings ==
    Return("calculateYearlySavings",
           calculateYearlySavings(args.monthlyIncome, args.savingsPercentage))

CallCalculateSavingsProjection ==
    Return("calculateSavingsProjection",
           calculateSavingsProjection(args.currentSavings, args.alreadySaved,
                                      args.monthlyIncome,
                                      args.savingsPercentage, args.years))

CallCalculateMonthlyIncomeFromData ==
    Return("calculateMonthlyIncomeFromData",
           calculateMonthlyIncomeFromData(args.monthlyIncomes))

CallCalculateYearlyIncomeFromData ==
    Return("calculateYearlyIncomeFromData",
           calculateYearlyIncomeFromData(args.yearData))

CallCalculateIncomeBreakdownFromData ==
    Return("calculateIncomeBreakdownFromData",
           calculateIncomeBreakdownFromData(args.monthlyIncomes))

CallCalculateResultsFromMonthlyData ==
    Return("calculateResultsFromMonthlyData",
           calculateResultsFromMonthlyData(args.currentMonthIncomes,
                                           args.yearData, args.currentSavings,
                                           args.alreadySaved,
                                           args.savingsPercentage))

CallCalculateResults ==
    Return("calculateResults",
           calculateResults(args.sources, args.currentSavings,
                            args.alreadySaved, args.savingsPercentage))

CallCreateWhatIfScenario ==
    Return("createWhatIfScenario",
           createWhatIfScenario(args.monthlyIncome, args.savingsPercentage,
                                args.currentSavings, args.alreadySaved))

CallCreateWhatIfScenarios ==
    Return("createWhatIfScenarios",
           createWhatIfScenarios(args.monthlyIncome, args.currentSavings,
                                 args.alreadySaved, args.percentages))

CallCalculateGoalProgress ==
    Return("calculateGoalProgress",
           calculateGoalProgress(args.current, args.target))

CallCalculateMonthsToGoal ==
    Return("calculateMonthsToGoal",
           calculateMonthsToGoal(args.currentAmount, args.targetAmount,
                                 args.monthlySavings))

\* the caller of a composer calls it once more, with any arguments
CallAgain ==
    /\ pc = "done"
    /\ fn \in Composers
    /\ ~HasEarlier
    /\ earlier' = [fn |-> fn, args |-> args, result |-> result]
    /\ pc' = "call"
    /\ args' \in ArgsOf(fn)
    /\ result' = NoResult
    /\ UNCHANGED fn
    /\ UNCHANGED appVars

Next ==
    \/ CallConvertToMonthly
    \/ CallConvertToYearly
    \/ CallCalculateMonthlyIncome
    \/ CallCalculateIncomeBreakdown
    \/ CallCalculateMonthlySavings
    \/ CallCalculateYearlySavings
    \/ CallCalculateSavingsProjection
    \/ CallCalculateMonthlyIncomeFromData
    \/ CallCalculateYearlyIncomeFromData
    \/ CallCalculateIncomeBreakdownFromData
    \/ CallCalculateResultsFromMonthlyData
    \/ CallCalculateResults
    \/ CallCreateWhatIfScenario
    \/ CallCreateWhatIfScenarios
    \/ CallCalculateGoalProgress
    \/ CallCalculateMonthsToGoal
    \/ CallAgain

Spec == Init /\ [][Next]_vars

(***************************************************************************)
(* The properties.  Each one is an invariant of Spec about the state after *)
(* a call; equality of numbers is the === of the language (NumEq).         *)
(***************************************************************************)
Done(f) == pc = "done" /\ fn = f

NumAbs(x) == IF IsNaN(x) THEN x ELSE [x EXCEPT !.s = 0]

\* 10^-12, the relative error allowed where a sum is only nearly exact
RelativeError == NumDiv(Num(1), NumMul(Num(1000000), Num(1000000)))

\* |x - y| <= 10^-12 * |scale|
Close(x, y, scale) ==
    NumLe(NumAbs(NumSub(x, y)), NumMul(RelativeError, NumAbs(scale)))

\* the sum, from left to right, of the monthly amounts of the active ones
\* among the first n sources
RECURSIVE SumOfActiveMonthly(_, _)
SumOfActiveMonthly(sources, n) ==
    IF n = 0 THEN Zero(0)
    ELSE IF sources[n].isActive
         THEN NumAdd(SumOfActiveMonthly(sources, n - 1),
                     convertToMonthly(sources[n].amount, sources[n].frequency))
         ELSE SumOfActiveMonthly(sources, n - 1)

\* C1: calculateMonthlyIncome returns the sum of convertToMonthly(amount,
\* frequency) over exactly the active sources; inactive sources add nothing,
\* the empty list gives 0, and an active monthly 3000 with an active yearly
\* 1200 gives 3100.
C1_MonthlyIncomeIsSumOverActive ==
    Done("calculateMonthlyIncome") =>
        /\ NumEq(result, SumOfActiveMonthly(args.sources, Len(args.sources)))
        /\ args.sources = <<>> => result = Zero(0)
        /\ args.sources = <<Salary3000, Investment1200>> => result = Num(3100)

C1_Witness ==
    /\ Done("calculateMonthlyIncome")
    /\ args.sources = <<Salary3000, InactiveSalary100, Investment1200>>
    /\ result = Num(3100)

\* C2: convertToMonthly leaves a monthly amount unchanged, turns a weekly
\* amount into amount * 52 / 12 (100 a week is not 400 a month), a yearly
\* amount into amount / 12 (1200 a year is 100 a month) and a one_time amount
\* into 0.
C2_ConvertToMonthlyTable ==
    Done("convertToMonthly") =>
        /\ args.frequency = "monthly" => result = args.amount
        /\ args.frequency = "weekly" =>
              /\ NumEq(result, NumDiv(NumMul(args.amount, Num(52)), Num(12)))
              /\ args.amount = Num(100) => ~NumEq(result, Num(400))
        /\ args.frequency = "yearly" =>
              /\ NumEq(result, NumDiv(args.amount, Num(12)))
              /\ args.amount = Num(1200) => result = Num(100)
        /\ args.frequency = "one_time" => NumEq(result, Zero(0))

C2_Witness ==
    /\ Done("convertToMonthly")
    /\ args.frequency = "weekly"
    /\ args.amount = Num(100)
    /\ NumLt(Dec(43333, 100), result)
    /\ NumLt(result, Dec(43334, 100))

\* C3: for every amount and every frequency, the unrecognized ones included,
\* convertToYearly(amount, f) is convertToMonthly(amount, f) * 12.
C3_YearlyIsTwelveTimesMonthly ==
    Done("convertToYearly") =>
        NumEq(result,
              NumMul(convertToMonthly(args.amount, args.frequency), Num(12)))

C3_Witness ==
    /\ Done("convertToYearly")
    /\ args.frequency \notin {"monthly", "weekly", "yearly", "one_time"}
    /\ args.amount = Num(1200)
    /\ NumEq(result, Zero(0))

HasKnownFrequency(source) ==
    source.frequency \in {"monthly", "weekly", "yearly", "one_time"}

\* C4: a frequency outside {monthly, weekly, yearly, one_time} makes
\* convertToMonthly return 0, and a source with such a frequency adds 0 to
\* calculateMonthlyIncome: the income is that of the list without it.
C4_UnknownFrequencyIsZero ==
    /\ Done("convertToMonthly") /\ ~HasKnownFrequency(args) =>
          NumEq(result, Zero(0))
    /\ Done("calculateMonthlyIncome") =>
          NumEq(result,
                calculateMonthlyIncome(SelectSeq(args.sources,
                                                 HasKnownFrequency)))

C4_Witness ==
    /\ Done("calculateMonthlyIncome")
    /\ args.sources = <<Salary3000, Biweekly100>>
    /\ result = Num(3000)

\* the sum, from left to right, of the amount field of the active ones among
\* the first n entries
RECURSIVE SumOfActiveAmounts(_, _)
SumOfActiveAmounts(incomes, n) ==
    IF n = 0 THEN Zero(0)
    ELSE IF incomes[n].isActive
         THEN NumAdd(SumOfActiveAmounts(incomes, n - 1), incomes[n].amount)
         ELSE SumOfActiveAmounts(incomes, n - 1)

\* C5: calculateMonthlyIncomeFromData returns the sum of the raw amount over
\* exactly the active entries, whatever their isRecurring and incomeSourceId;
\* the empty list gives 0.
C5_MonthlyFromDataIsSumOfAmounts ==
    Done("calculateMonthlyIncomeFromData") =>
        /\ NumEq(result, SumOfActiveAmounts(args.monthlyIncomes,
                                            Len(args.monthlyIncomes)))
        /\ args.monthlyIncomes = <<>> => result = Zero(0)

C5_Witness ==
    /\ Done("calculateMonthlyIncomeFromData")
    /\ args.monthlyIncomes = <<EntryFreelance, EntryInactive, EntrySalary>>
    /\ result = NumAdd(Dec(43333, 100), Num(3000))

\* the sum over the months 1..n of the monthly income of the month's entries,
\* a month that is not in the map counting 0
RECURSIVE SumOfMonths(_, _)
SumOfMonths(yearData, n) ==
    IF n = 0 THEN Zero(0)
    ELSE NumAdd(SumOfMonths(yearData, n - 1),
                IF n \in DOMAIN yearData
                THEN calculateMonthlyIncomeFromData(yearData[n])
                ELSE Zero(0))

\* C6: calculateYearlyIncomeFromData returns the sum over the months 1 to 12
\* of calculateMonthlyIncomeFromData of the month's entries; an absent month
\* and a month with an empty list count 0.
C6_YearlyFromDataIsSumOfMonths ==
    Done("calculateYearlyIncomeFromData") =>
        NumEq(result, SumOfMonths(args.yearData, 12))

C6_Witness ==
    /\ Done("calculateYearlyIncomeFromData")
    /\ args.yearData = [m \in {1, 12} |->
                          IF m = 1 THEN <<>> ELSE <<EntryFreelance>>]
    /\ result = Dec(43333, 100)

DoneBreakdown ==
    pc = "done"
    /\ fn \in {"calculateIncomeBreakdown", "calculateIncomeBreakdownFromData"}

\* the records a breakdown was asked for, and what one of them counts for
Records ==
    IF fn = "calculateIncomeBreakdown" THEN args.sources
                                       ELSE args.monthlyIncomes

Normalized(record) ==
    IF fn = "calculateIncomeBreakdown"
    THEN convertToMonthly(record.amount, record.frequency)
    ELSE record.amount

\* the total active monthly income of the records
Total ==
    IF fn = "calculateIncomeBreakdown"
    THEN calculateMonthlyIncome(args.sources)
    ELSE calculateMonthlyIncomeFromData(args.monthlyIncomes)

RECURSIVE SumOfPercentages(_, _)
SumOfPercentages(rows, n) ==
    IF n = 0 THEN Zero(0)
    ELSE NumAdd(SumOfPercentages(rows, n - 1), rows[n].percentage)

RECURSIVE SumOfRowAmounts(_, _)
SumOfRowAmounts(rows, n) ==
    IF n = 0 THEN Zero(0)
    ELSE NumAdd(SumOfRowAmounts(rows, n - 1), rows[n].amount)

AllPercentagesZero ==
    \A i \in 1..Len(result) : NumEq(result[i].percentage, Zero(0))

\* C7, as stated: the percentages of the rows of a breakdown sum to 100
\* whenever the total active monthly income is greater than 0, and every
\* percentage is 0 whenever the total is 0.
C7_PercentagesSumToHundred ==
    DoneBreakdown =>
        /\ NumGt(Total, Zero(0)) =>
              NumEq(SumOfPercentages(result, Len(result)), Num(100))
        /\ NumEq(Total, Zero(0)) => AllPercentagesZero

\* C7, amended: the percentages of the rows of a breakdown sum to 100 up to
\* the rounding of the arithmetic (a relative error of 10^-12) whenever the
\* total active monthly income is greater than 0, and every percentage is 0
\* whenever the total is 0.
C7_PercentagesSumToHundredRounded ==
    DoneBreakdown =>
        /\ NumGt(Total, Zero(0)) =>
              Close(SumOfPercentages(result, Len(result)), Num(100), Num(100))
        /\ NumEq(Total, Zero(0)) => AllPercentagesZero

C7_Witness ==
    /\ Done("calculateIncomeBreakdown")
    /\ args.sources = <<Investment1200, Freelance100>>
    /\ NumGt(Total, Zero(0))
    /\ NumGt(SumOfPercentages(result, Len(result)), Num(100))
    /\ Close(SumOfPercentages(result, Len(result)), Num(100), Num(100))

\* the positions of the active records, and the categories among them
ActivePositions == { i \in 1..Len(Records) : Records[i].isActive }

Categories == { Records[i].type : i \in ActivePositions }

\* where a category occurs first among the active records
FirstOccurrence(type) ==
    CHOOSE i \in ActivePositions :
        /\ Records[i].type = type
        /\ \A j \in ActivePositions : Records[j].type = type => i <= j

\* the sum, from left to right, of what the active records of a category
\* among the first n records count for
RECURSIVE SumOfCategory(_, _)
SumOfCategory(type, n) ==
    IF n = 0 THEN Zero(0)
    ELSE IF Records[n].isActive /\ Records[n].type = type
         THEN NumAdd(SumOfCategory(type, n - 1), Normalized(Records[n]))
         ELSE SumOfCategory(type, n - 1)

\* one row for each category of the active records, in the order of first
\* occurrence, with the sum of the category as its amount
RowsAreTheCategories ==
    /\ Len(result) = Cardinality(Categories)
    /\ { result[i].type : i \in 1..Len(result) } = Categories
    /\ \A i, j \in 1..Len(result) :
          i < j => FirstOccurrence(result[i].type)
                     < FirstOccurrence(result[j].type)
    /\ \A i \in 1..Len(result) :
          NumEq(result[i].amount, SumOfCategory(result[i].type, Len(Records)))

\* C8, as stated: the breakdown has one row for each distinct category among
\* the active records (none for an inactive record, one for an active record
\* that counts for 0), in the order of first occurrence, each with the sum of
\* its category as amount, and the row amounts add up to the total active
\* monthly income.
C8_RowsAddUpToTotal ==
    DoneBreakdown =>
        /\ RowsAreTheCategories
        /\ NumEq(SumOfRowAmounts(result, Len(result)), Total)

\* C8, amended: as C8, but the row amounts add up to the total active monthly
\* income only up to the rounding of the arithmetic (a relative error of
\* 10^-12).
C8_RowsAddUpToTotalRounded ==
    DoneBreakdown =>
        /\ RowsAreTheCategories
        /\ Close(SumOfRowAmounts(result, Len(result)), Total, Total)

C8_Witness ==
    /\ Done("calculateIncomeBreakdown")
    /\ args.sources = <<InactiveSalary100, OneTime500, Salary3000>>
    /\ Len(result) = 2
    /\ result[1].type = "freelance"
    /\ result[1].amount = Zero(0)
    /\ result[2].type = "salary"
    /\ result[2].amount = Num(3000)

\* C9: calculateMonthlySavings returns monthlyIncome * savingsPercentage / 100
\* and calculateYearlySavings returns 12 times calculateMonthlySavings of the
\* same arguments.
C9_SavingsTargets ==
    /\ Done("calculateMonthlySavings") =>
          /\ NumEq(result, NumDiv(NumMul(args.monthlyIncome,
                                         args.savingsPercentage), Num(100)))
          /\ args.monthlyIncome = Num(3100) /\ args.savingsPercentage = Num(15)
                => result = Num(465)
    /\ Done("calculateYearlySavings") =>
          NumEq(result,
                NumMul(calculateMonthlySavings(args.monthlyIncome,
                                               args.savingsPercentage),
                       Num(12)))

C9_Witness ==
    /\ Done("calculateYearlySavings")
    /\ args.monthlyIncome = Num(3100)
    /\ args.savingsPercentage = Num(15)
    /\ result = Num(5580)

\* currentSavings + alreadySaved + yearly savings * years
LinearProjection ==
    NumAdd(NumAdd(args.currentSavings, args.alreadySaved),
           NumMul(calculateYearlySavings(args.monthlyIncome,
                                         args.savingsPercentage),
                  args.years))

\* the projection one year later
NextYearProjection ==
    calculateSavingsProjection(args.currentSavings, args.alreadySaved,
                               args.monthlyIncome, args.savingsPercentage,
                               NumAdd(args.years, Num(1)))

YearlySavingsOfCall ==
    calculateYearlySavings(args.monthlyIncome, args.savingsPercentage)

\* C10, as stated: calculateSavingsProjection returns currentSavings +
\* alreadySaved + calculateYearlySavings(monthlyIncome, savingsPercentage) *
\* years, and the increase from year n to year n + 1 is the yearly savings
\* amount for every n.
C10_ProjectionIsLinear ==
    Done("calculateSavingsProjection") =>
        /\ NumEq(result, LinearProjection)
        /\ NumLe(Zero(0), args.years) =>
              NumEq(NumSub(NextYearProjection, result), YearlySavingsOfCall)

\* C10, amended: calculateSavingsProjection returns currentSavings +
\* alreadySaved + calculateYearlySavings(monthlyIncome, savingsPercentage) *
\* years, and the increase from year n to year n + 1 is the yearly savings
\* amount up to the rounding of the arithmetic (a relative error of 10^-12 of
\* the projection).
C10_ProjectionIsLinearRounded ==
    Done("calculateSavingsProjection") =>
        /\ NumEq(result, LinearProjection)
        /\ NumLe(Zero(0), args.years) =>
              Close(NumSub(NextYearProjection, result), YearlySavingsOfCall,
                    NextYearProjection)

C10_Witness ==
    /\ Done("calculateSavingsProjection")
    /\ args.currentSavings = Num(1000)
    /\ args.alreadySaved = Num(500)
    /\ args.monthlyIncome = Num(3100)
    /\ args.savingsPercentage = Num(10)
    /\ args.years = Num(5)
    /\ result = Num(20100)

\* currentSavings + alreadySaved
Baseline == NumAdd(args.currentSavings, args.alreadySaved)

\* C11, as stated: for every years value that is negative or zero,
\* calculateSavingsProjection yields the baseline currentSavings +
\* alreadySaved, whatever the monthly income and the savings percentage.
C11_NonPositiveYearsGiveBaseline ==
    Done("calculateSavingsProjection") /\ NumLe(args.years, Zero(0)) =>
        NumEq(result, Baseline)

\* a negative years value, for which the projection falls below the baseline
C11_Witness ==
    /\ Done("calculateSavingsProjection")
    /\ args.currentSavings = Num(1000)
    /\ args.alreadySaved = Num(500)
    /\ args.monthlyIncome = Num(3100)
    /\ args.savingsPercentage = Num(10)
    /\ args.years = NumNeg(Num(1))
    /\ result = NumNeg(Num(2220))

DoneComposer == pc = "done" /\ fn \in Composers

\* C12: the projections of every composed result are four entries with years
\* 1, 3, 5, 10 in that order, each with saved = yearlySavings * years (without
\* the baseline) and total = currentSavings + alreadySaved + saved.
C12_FourProjections ==
    DoneComposer =>
        /\ Len(result.projections) = 4
        /\ result.projections[1].years = Num(1)
        /\ result.projections[2].years = Num(3)
        /\ result.projections[3].years = Num(5)
        /\ result.projections[4].years = Num(10)
        /\ \A i \in 1..4 :
              /\ NumEq(result.projections[i].saved,
                       NumMul(result.yearlySavings,
                              result.projections[i].years))
              /\ NumEq(result.projections[i].total,
                       NumAdd(Baseline, result.projections[i].saved))

C12_Witness ==
    /\ Done("calculateResults")
    /\ args.sources = <<Salary3000, Investment1200>>
    /\ args.currentSavings = Num(1000)
    /\ args.savingsPercentage = Num(10)
    /\ result.yearlySavings = Num(3720)
    /\ result.projections[4].saved = Num(37200)
    /\ result.projections[4].total = Num(38700)

\* the call made before was of the same arguments but for the year data
DiffersInYearDataOnly ==
    /\ HasEarlier
    /\ [earlier.args EXCEPT !.yearData = <<>>] = [args EXCEPT !.yearData = <<>>]

\* the categories of the active entries of the current month
CurrentMonthCategories ==
    { args.currentMonthIncomes[i].type :
        i \in { j \in 1..Len(args.currentMonthIncomes) :
                  args.currentMonthIncomes[j].isActive } }

\* C13: calculateResultsFromMonthlyData derives monthlyIncome, the savings,
\* the projections and the breakdown from the current month's entries only and
\* yearlyIncome from the year data only: two calls that differ only in
\* yearData return results that differ at most in yearlyIncome, two calls of
\* the same yearData return the same yearlyIncome, and no category of another
\* month's entries appears in the breakdown.
C13_CurrentMonthOnly ==
    Done("calculateResultsFromMonthlyData") =>
        /\ result.monthlyIncome
              = calculateMonthlyIncomeFromData(args.currentMonthIncomes)
        /\ result.incomeBreakdown
              = calculateIncomeBreakdownFromData(args.currentMonthIncomes)
        /\ result.yearlyIncome = calculateYearlyIncomeFromData(args.yearData)
        /\ { result.incomeBreakdown[i].type :
               i \in 1..Len(result.incomeBreakdown) } = CurrentMonthCategories
        /\ DiffersInYearDataOnly =>
              [result EXCEPT !.yearlyIncome = Zero(0)]
                 = [earlier.result EXCEPT !.yearlyIncome = Zero(0)]
        /\ HasEarlier /\ earlier.args.yearData = args.yearData =>
              result.yearlyIncome = earlier.result.yearlyIncome

C13_Witness ==
    /\ Done("calculateResultsFromMonthlyData")
    /\ DiffersInYearDataOnly
    /\ args.currentMonthIncomes = <<EntrySalary, EntryInactive>>
    /\ DOMAIN earlier.args.yearData = {}
    /\ DOMAIN args.yearData = {1, 12}
    /\ result.yearlyIncome # earlier.result.yearlyIncome
    /\ result.monthlyIncome = Num(3000)
    /\ Len(result.incomeBreakdown) = 1
    /\ result.incomeBreakdown[1].type = "salary"

\* a second call of a composer, with the arguments of the call made before
SameSnapshotAgain == DoneComposer /\ HasEarlier /\ earlier.args = args

Candidates ==
    IF args.percentages.given THEN args.percentages.value
    ELSE <<Num(10), Num(15), Num(20), Num(30), Num(40), Num(50)>>

\* the scenario of the call for the percentage p alone
ScenarioFor(p) ==
    [savingsPercentage |-> p,
     monthlyIncome     |-> args.monthlyIncome,
     monthlySavings    |-> NumDiv(NumMul(args.monthlyIncome, p), Num(100)),
     projection5Years  |->
        calculateSavingsProjection(args.currentSavings, args.alreadySaved,
                                   args.monthlyIncome, p, Num(5)),
     projection10Years |->
        calculateSavingsProjection(args.currentSavings, args.alreadySaved,
                                   args.monthlyIncome, p, Num(10))]

\* C15: createWhatIfScenarios returns one scenario for each candidate
\* percentage, in the order of the list (by default 10, 15, 20, 30, 40, 50);
\* the i-th one is createWhatIfScenario of the i-th percentage, with
\* monthlySavings = income * p / 100 and the projections over 5 and 10 years
\* computed with p alone; [10, 20] with income 5000 and no baseline gives
\* 500 / 30000 and 1000 / 60000.
C15_OneScenarioPerPercentage ==
    Done("createWhatIfScenarios") =>
        /\ Len(result) = Len(Candidates)
        /\ \A i \in 1..Len(result) :
              /\ result[i] = ScenarioFor(Candidates[i])
              /\ result[i] = createWhatIfScenario(args.monthlyIncome,
                                                  Candidates[i],
                                                  args.currentSavings,
                                                  args.alreadySaved)
        /\ /\ args.percentages = Given(<<Num(10), Num(20)>>)
           /\ args.monthlyIncome = Num(5000)
           /\ args.currentSavings = Num(0)
           /\ args.alreadySaved = Num(0)
           => /\ result[1].monthlySavings = Num(500)
              /\ result[1].projection5Years = Num(30000)
              /\ result[2].monthlySavings = Num(1000)
              /\ result[2].projection5Years = Num(60000)

C15_Witness ==
    /\ Done("createWhatIfScenarios")
    /\ ~args.percentages.given
    /\ args.monthlyIncome = Num(5000)
    /\ args.currentSavings = Num(1000)
    /\ args.alreadySaved = Num(500)
    /\ Len(result) = 6
    /\ result[6].savingsPercentage = Num(50)
    /\ result[6].monthlySavings = Num(2500)
    /\ result[6].projection10Years = Num(301500)

NonNegative(x) == NumLe(Zero(0), x)

\* current / target * 100
ProgressRatio == NumMul(NumDiv(args.current, args.target), Num(100))

\* C16: for non-negative current and target, calculateGoalProgress returns 0
\* when target = 0 and min(current / target * 100, 100) otherwise; the result
\* lies between 0 and 100, and is 100 whenever current >= target > 0
\* (50 of 100 is 50, 150 of 100 is 100).
C16_GoalProgressIsClamped ==
    Done("calculateGoalProgress")
    /\ NonNegative(args.current) /\ NonNegative(args.target) =>
        /\ NumEq(args.target, Zero(0)) => NumEq(result, Zero(0))
        /\ ~NumEq(args.target, Zero(0)) =>
              NumEq(result, IF NumLt(ProgressRatio, Num(100))
                            THEN ProgressRatio ELSE Num(100))
        /\ NumLe(Zero(0), result) /\ NumLe(result, Num(100))
        /\ NumLe(args.target, args.current) /\ NumGt(args.target, Zero(0)) =>
              result = Num(100)
        /\ args.current = Num(50) /\ args.target = Num(100) =>
              result = Num(50)

C16_Witness ==
    /\ Done("calculateGoalProgress")
    /\ args.current = Num(150)
    /\ args.target = Num(100)
    /\ result = Num(100)

\* targetAmount - currentAmount, and its quotient by monthlySavings
Remaining == NumSub(args.targetAmount, args.currentAmount)

MonthsRatio == NumDiv(Remaining, args.monthlySavings)

\* x is a whole number
IsWhole(x) ==
    /\ x.k = "fin"
    /\ IsZero(x) \/ x.e >= 0 \/ ~BNLowNonzero(x.m, 0 - x.e)

\* C17: calculateMonthsToGoal decides by the first case that matches:
\* monthlySavings = 0 gives the sentinel Infinity, also when the goal is met;
\* else target - current <= 0 gives 0; else the result is the ceiling of
\* (target - current) / monthlySavings.  For non-negative current and target
\* and positive monthlySavings the result is a whole number >= 0
\* (0 of 1000 at 250 a month takes 4 months).
C17_MonthsToGoalCases ==
    Done("calculateMonthsToGoal") =>
        /\ NumEq(args.monthlySavings, Zero(0)) => result = Infinity
        /\ ~NumEq(args.monthlySavings, Zero(0)) /\ NumLe(Remaining, Zero(0)) =>
              result = Zero(0)
        /\ ~NumEq(args.monthlySavings, Zero(0)) /\ NumGt(Remaining, Zero(0)) =>
              /\ IsWhole(result)
              /\ NumLe(MonthsRatio, result)
              /\ NumLt(NumSub(result, Num(1)), MonthsRatio)
        /\ /\ NonNegative(args.currentAmount)
           /\ NonNegative(args.targetAmount)
           /\ NumGt(args.monthlySavings, Zero(0))
           => IsWhole(result) /\ NumLe(Zero(0), result)
        /\ /\ args.currentAmount = Num(0)
           /\ args.targetAmount = Num(1000)
           /\ args.monthlySavings = Num(250)
           => result = Num(4)

C17_Witness ==
    /\ Done("calculateMonthsToGoal")
    /\ args.currentAmount = Num(1000)
    /\ args.targetAmount = Num(1000)
    /\ args.monthlySavings = Num(0)
    /\ result = Infinity

\* the amount reached after n months of saving
Reached(n) ==
    NumAdd(args.currentAmount, NumMul(n, args.monthlySavings))

\* the goal is not met yet and something is saved every month
GoalAhead ==
    /\ Done("calculateMonthsToGoal")
    /\ NumGt(args.monthlySavings, Zero(0))
    /\ NumGt(args.targetAmount, args.currentAmount)

\* C28: for monthlySavings > 0 and target > current, the number n returned by
\* calculateMonthsToGoal is the least whole number of months that reaches
\* the goal: current + n * monthlySavings >= target and
\* current + (n - 1) * monthlySavings < target
C28_LeastMonthsToGoal ==
    GoalAhead =>
        /\ NumLe(args.targetAmount, Reached(result))
        /\ NumLt(Reached(NumSub(result, Num(1))), args.targetAmount)

\* C28 as it holds: the two comparisons hold up to the rounding of the
\* quotient, the product and the sum, a relative error of 10^-12 of the
\* target
C28_LeastMonthsToGoalRounded ==
    GoalAhead =>
        /\ \/ NumLe(args.targetAmount, Reached(result))
           \/ Close(Reached(result), args.targetAmount, args.targetAmount)
        /\ \/ NumLt(Reached(NumSub(result, Num(1))), args.targetAmount)
           \/ Close(Reached(NumSub(result, Num(1))), args.targetAmount,
                    args.targetAmount)

\* from 1 to 1.06 at 0.01 a month: the quotient is 6.000000000000005
C28_Witness ==
    /\ GoalAhead
    /\ args.currentAmount = Num(1)
    /\ args.targetAmount = Dec(106, 100)
    /\ args.monthlySavings = Dec(1, 100)
    /\ result = Num(7)

(***************************************************************************)
(* The application around the engine.  Its async functions run on one      *)
(* thread and give way to one another at every await, so a call in flight  *)
(* is a record of calls, [op, pc, its locals], that advances one awaited    *)
(* operation at a time; a call that has returned keeps only op and pc.     *)
(* Every awaited Dexie operation is one IndexedDB transaction.             *)
(***************************************************************************)
MaxCalls == 2

\* new Date(): the year and the month the application runs in
currentYear == 2026

currentMonth == 11

\* the months of the page a user acts on
PageMonths == {11, 12}

\* crypto.randomUUID(): the identifiers are taken in increasing order, so a
\* table, kept in the order of its keys, is in the order of insertion
randomUUID(d) == d.issued + 1

Finished(call) == [op |-> call.op, pc |-> "done"]

InFlight(i) == calls[i].pc # "done"

Quiescent == \A i \in DOMAIN calls : ~InFlight(i)

\* Table.add: the table stays in the order of its primary key
TableAdd(table, record) ==
    LET Below(r) == r.id < record.id
        Above(r) == r.id > record.id
    IN  SelectSeq(table, Below) \o <<record>> \o SelectSeq(table, Above)

\* where('[year+month]').equals([year, month])
WhereYearMonth(table, year, month) ==
    LET Matches(r) == r.year = year /\ r.month = month
    IN  SelectSeq(table, Matches)

\* Collection.first(): the record or undefined, <<record>> or <<>>
First(rows) == IF rows = <<>> THEN <<>> ELSE <<rows[1]>>

\* the text of an input field, one character per element
Digits == <<"0", "1", "2", "3", "4", "5", "6", "7", "8", "9">>

IsDigit(c) == \E d \in DOMAIN Digits : Digits[d] = c

DigitValue(c) == (CHOOSE d \in DOMAIN Digits : Digits[d] = c) - 1

RECURSIVE ParseDigits(_, _, _)
ParseDigits(text, i, value) ==
    IF i > Len(text) \/ ~IsDigit(text[i]) THEN value
    ELSE ParseDigits(text, i + 1,
                     NumAdd(NumMul(value, Num(10)), Num(DigitValue(text[i]))))

\* parseFloat of an unsigned whole number: the longest prefix of digits, NaN
\* when there is none
parseFloat(text) ==
    IF text = <<>> \/ ~IsDigit(text[1]) THEN NaN
    ELSE ParseDigits(text, 1, Zero(0))

\* x || 0
OrZeroNumber(x) == IF Truthy(x) THEN x ELSE Zero(0)

\* what successive keystrokes leave in the savings input
SavingsTexts == { <<>>, <<"5">>, <<"5", "0">>, <<"5", "0", "x">> }

MonthlySavingsRecord(id, year, month, savedAmount) ==
    [id |-> id, year |-> year, month |-> month, savedAmount |-> savedAmount]

\* monthlySavingsService.getByMonth
savingsGetByMonth(table, year, month) ==
    First(WhereYearMonth(table, year, month))

\* db.monthlySavings.update(id, {savedAmount, ...})
savingsUpdate(table, id, savedAmount) ==
    [i \in DOMAIN table |->
        IF table[i].id = id
        THEN [table[i] EXCEPT !.savedAmount = savedAmount]
        ELSE table[i]]

\* monthlyIncomeService.getByMonth
incomesGetByMonth(table, year, month) == WhereYearMonth(table, year, month)

\* loadMonthlyData: the page's two Maps of the selected year
LoadedPage(year) ==
    [monthlyData |->
        [m \in 1..12 |-> incomesGetByMonth(db.monthlyIncomes, year, m)],
     monthlySavingsData |->
        [m \in 1..12 |-> savingsGetByMonth(db.monthlySavings, year, m)]]

\* the engine is not being called
NoCall ==
    /\ pc = "done"
    /\ fn = "none"
    /\ args = "none"
    /\ result = NoResult
    /\ earlier = NoEarlier

\* the page is open on an initialised, empty database
SavingsInit ==
    /\ NoCall
    /\ db = EmptyDb
    /\ store = InitialStore
    /\ page = InitialPage
    /\ calls = <<>>

\* onChange of a month's savings input: handleSavingsUpdate(month, amount)
\* up to its first await, inside setSavings
HandleSavingsUpdate ==
    \E month \in PageMonths, text \in SavingsTexts :
        /\ Len(calls) < MaxCalls
        /\ calls' = Append(calls,
                           [op |-> "handleSavingsUpdate", pc |-> "getByMonth",
                            year |-> currentYear, month |-> month,
                            savedAmount |-> OrZeroNumber(parseFloat(text)),
                            existing |-> <<>>])
        /\ UNCHANGED <<db, store, page>>
        /\ UNCHANGED callVars

\* const existing = await this.getByMonth(year, month)
SetSavingsGetByMonth ==
    \E i \in DOMAIN calls :
        /\ calls[i].op = "handleSavingsUpdate"
        /\ calls[i].pc = "getByMonth"
        /\ calls' = [calls EXCEPT
                       ![i].existing =
                           savingsGetByMonth(db.monthlySavings,
                                             calls[i].year, calls[i].month),
                       ![i].pc = "write"]
        /\ UNCHANGED <<db, store, page>>
        /\ UNCHANGED callVars

\* if (existing) await db.monthlySavings.update(existing.id, ...)
SetSavingsUpdate ==
    \E i \in DOMAIN calls :
        /\ calls[i].op = "handleSavingsUpdate"
        /\ calls[i].pc = "write"
        /\ calls[i].existing # <<>>
        /\ db' = [db EXCEPT
                    !.monthlySavings =
                        savingsUpdate(@, calls[i].existing[1].id,
                                      calls[i].savedAmount)]
        /\ calls' = [calls EXCEPT ![i].pc = "loadMonthlyData"]
        /\ UNCHANGED <<store, page>>
        /\ UNCHANGED callVars

\* else await db.monthlySavings.add({id: crypto.randomUUID(), ...})
SetSavingsAdd ==
    \E i \in DOMAIN calls :
        /\ calls[i].op = "handleSavingsUpdate"
        /\ calls[i].pc = "write"
        /\ calls[i].existing = <<>>
        /\ db' = [db EXCEPT
                    !.monthlySavings =
                        TableAdd(@, MonthlySavingsRecord(
                                        randomUUID(db), calls[i].year,
                                        calls[i].month, calls[i].savedAmount)),
                    !.issued = randomUUID(db)]
        /\ calls' = [calls EXCEPT ![i].pc = "loadMonthlyData"]
        /\ UNCHANGED <<store, page>>
        /\ UNCHANGED callVars

\* await loadMonthlyData(): the reads of the twelve months taken together,
\* then setMonthlyData and setMonthlySavingsData
LoadMonthlyData ==
    \E i \in DOMAIN calls :
        /\ calls[i].pc = "loadMonthlyData"
        /\ page' = LoadedPage(currentYear)
        /\ calls' = [calls EXCEPT ![i] = Finished(@)]
        /\ UNCHANGED <<db, store>>
        /\ UNCHANGED callVars

SavingsNext ==
    \/ HandleSavingsUpdate
    \/ SetSavingsGetByMonth
    \/ SetSavingsUpdate
    \/ SetSavingsAdd
    \/ LoadMonthlyData

SavingsSpec == SavingsInit /\ [][SavingsNext]_vars

\* C18: after any interleaving of setSavings calls the monthlySavings table
\* holds at most one record per (year, month)
C18_OneSavingsRecordPerMonth ==
    \A i, j \in DOMAIN db.monthlySavings :
        /\ db.monthlySavings[i].year = db.monthlySavings[j].year
        /\ db.monthlySavings[i].month = db.monthlySavings[j].month
        => i = j

\* two calls for the same year and month overlapped: each read the table
\* before the other wrote, and both have written
C18_Witness ==
    \E i, j \in DOMAIN calls :
        /\ i # j
        /\ calls[i].op = "handleSavingsUpdate"
        /\ calls[j].op = "handleSavingsUpdate"
        /\ calls[i].pc = "loadMonthlyData"
        /\ calls[j].pc = "loadMonthlyData"
        /\ calls[i].month = calls[j].month
        /\ calls[i].existing = <<>>
        /\ calls[j].existing = <<>>

(***************************************************************************)
(* The services of the database (db/services) as operators on the tables.  *)
(***************************************************************************)
\* incomeSourceId: null
NoSource == 0

SourceRecord(id, source) ==
    [id |-> id, amount |-> source.amount, frequency |-> source.frequency,
     type |-> source.type, isActive |-> source.isActive]

MonthlyIncomeRecord(id, year, month, incomeSourceId, amount, type, isActive, isRecurring) ==
    [id |-> id, year |-> year, month |-> month,
     incomeSourceId |-> incomeSourceId, amount |-> amount, type |-> type,
     isActive |-> isActive, isRecurring |-> isRecurring]

SavingsRecord(id, currentSavings, alreadySaved) ==
    [id |-> id, currentSavings |-> currentSavings,
     alreadySaved |-> alreadySaved]

SettingsRecord(id, savingsPercentage) ==
    [id |-> id, savingsPercentage |-> savingsPercentage]

\* Table.get(id): the record or undefined
TableGet(table, id) ==
    LET HasId(r) == r.id = id
    IN  First(SelectSeq(table, HasId))

\* Table.delete(id)
TableDelete(table, id) ==
    LET Other(r) == r.id # id
    IN  SelectSeq(table, Other)

\* incomeService.add
incomeAdd(d, source) ==
    [d EXCEPT !.incomeSources = TableAdd(@, SourceRecord(randomUUID(d), source)),
              !.issued = randomUUID(d)]

\* incomeService.update: the form sends every field of the source
incomeUpdate(d, id, updates) ==
    [d EXCEPT !.incomeSources =
        [i \in DOMAIN @ |-> IF @[i].id = id THEN SourceRecord(id, updates)
                                             ELSE @[i]]]

\* incomeService.delete
incomeDelete(d, id) ==
    [d EXCEPT !.incomeSources = TableDelete(@, id)]

\* savingsService.update
savingsServiceUpdate(d, data) ==
    IF d.savings # <<>>
    THEN [d EXCEPT !.savings[1] =
             SavingsRecord(@.id, data.currentSavings, data.alreadySaved)]
    ELSE [d EXCEPT !.savings =
             <<SavingsRecord(randomUUID(d), data.currentSavings,
                             data.alreadySaved)>>,
                   !.issued = randomUUID(d)]

\* savingsService.initialize
savingsInitialize(d) ==
    IF d.savings # <<>> THEN d
    ELSE savingsServiceUpdate(d, [currentSavings |-> Zero(0),
                                  alreadySaved |-> Zero(0)])

\* settingsService.update
settingsServiceUpdate(d, data) ==
    IF d.settings # <<>>
    THEN [d EXCEPT !.settings[1] = SettingsRecord(@.id, data.savingsPercentage)]
    ELSE [d EXCEPT !.settings =
             <<SettingsRecord(randomUUID(d), data.savingsPercentage)>>,
                   !.issued = randomUUID(d)]

\* settingsService.initialize
settingsInitialize(d) ==
    IF d.settings # <<>> THEN d
    ELSE settingsServiceUpdate(d, [savingsPercentage |-> Num(20)])

\* monthlyIncomeService.addOneTime
addOneTime(d, year, month, amount, type) ==
    [d EXCEPT !.monthlyIncomes =
                  TableAdd(@, MonthlyIncomeRecord(randomUUID(d), year, month,
                                                  NoSource, amount, type,
                                                  TRUE, FALSE)),
              !.issued = randomUUID(d)]

\* db.monthlyIncomes.update(id, {isActive: !income.isActive})
toggleUpdate(d, id, income) ==
    [d EXCEPT !.monthlyIncomes =
        [i \in DOMAIN @ |->
            IF @[i].id = id THEN [@[i] EXCEPT !.isActive = ~income.isActive]
                            ELSE @[i]]]

\* monthlyIncomeService.delete
monthlyIncomeDelete(d, id) ==
    [d EXCEPT !.monthlyIncomes = TableDelete(@, id)]

\* variant: the year never advanced
RolledYearKept(year, month) == year

\* while (month > 12) { month -= 12; year += 1 }
RECURSIVE RolledYear(_, _)
RolledYear(year, month) ==
    IF month > 12 THEN RolledYear(year + 1, month - 12) ELSE year

RECURSIVE RolledMonth(_)
RolledMonth(month) == IF month > 12 THEN RolledMonth(month - 12) ELSE month

\* ...equals([year, month]).and(income => income.incomeSourceId === source.id)
\* .first()
ExistingFromSource(table, year, month, sourceId) ==
    LET FromSource(income) == income.incomeSourceId = sourceId
    IN  First(SelectSeq(WhereYearMonth(table, year, month), FromSource))

\* variant: the month's entry added without looking for an existing one
GenerateMonthUnchecked(d, source, year, month) ==
    [d EXCEPT !.monthlyIncomes =
                  TableAdd(@, MonthlyIncomeRecord(
                                  randomUUID(d), year, month, source.id,
                                  source.amount, source.type,
                                  source.isActive, TRUE)),
              !.issued = randomUUID(d)]

\* one round of the loop of generateFromSource
GenerateMonth(d, source, year, month) ==
    IF ExistingFromSource(d.monthlyIncomes, year, month, source.id) # <<>>
    THEN d
    ELSE [d EXCEPT !.monthlyIncomes =
                       TableAdd(@, MonthlyIncomeRecord(
                                       randomUUID(d), year, month, source.id,
                                       source.amount, source.type,
                                       source.isActive, TRUE)),
                   !.issued = randomUUID(d)]

\* for (let i = 0; i < monthsCount; i++); the test of d.issued, never true,
\* makes TLC compute d before the next round
RECURSIVE GenerateLoop(_, _, _, _, _, _)
GenerateLoop(d, source, startYear, startMonth, i, monthsCount) ==
    IF i >= monthsCount \/ d.issued < 0 THEN d
    ELSE GenerateLoop(GenerateMonth(d, source,
                                    RolledYear(startYear, startMonth + i),
                                    RolledMonth(startMonth + i)),
                      source, startYear, startMonth, i + 1, monthsCount)

\* monthlyIncomeService.generateFromSource
generateFromSource(d, source, startYear, startMonth, monthsCount) ==
    IF source.frequency # "monthly" THEN d
    ELSE GenerateLoop(d, source, startYear, startMonth, 0, monthsCount)

\* the loop of initializeDatabase over the sources, from index i on
RECURSIVE GenerateForSources(_, _, _)
GenerateForSources(d, sources, i) ==
    IF i > Len(sources) \/ d.issued < 0 THEN d
    ELSE GenerateForSources(
             IF sources[i].frequency = "monthly" /\ sources[i].isActive
             THEN generateFromSource(d, sources[i], currentYear,
                                     currentMonth, 12)
             ELSE d,
             sources, i + 1)

\* the Map recalculate fills, month -> monthlyIncomeService.getByMonth
YearlyIncomes(table, year) ==
    [m \in 1..12 |-> incomesGetByMonth(table, year, m)]

\* monthlySavingsService.getByYear
savingsGetByYear(table, year) ==
    LET InYear(r) == r.year = year
    IN  SelectSeq(table, InYear)

(***************************************************************************)
(* The store (useAppStore), App's start-up and the handlers of the Monthly *)
(* Income page.  The application starts on a database a former run left:   *)
(* its savings and settings records and the income sources added then;     *)
(* monthly entries are generated from the sources at start-up only.        *)
(***************************************************************************)
\* what the forms of the pages send
FormSources == { Salary3000, Freelance100 }

SavingsForms ==
    { [currentSavings |-> Num(1000), alreadySaved |-> Num(500)] }

SettingsForms == { [savingsPercentage |-> Num(10)] }

OneTimeTexts == { <<"5", "0">> }

RECURSIVE WithIds(_, _)
WithIds(sources, i) ==
    IF i > Len(sources) THEN <<>>
    ELSE <<SourceRecord(i, sources[i])>> \o WithIds(sources, i + 1)

\* the income sources a former run left
StoredSources ==
    { <<>>, <<Salary3000>>, <<Salary3000, Freelance100>>,
      <<InactiveSalary100, Investment1200>> }

\* the database a former run left
StoredDb(sources) ==
    [EmptyDb EXCEPT
        !.incomeSources = WithIds(sources, 1),
        !.savings = <<SavingsRecord(Len(sources) + 1, Zero(0), Zero(0))>>,
        !.settings = <<SettingsRecord(Len(sources) + 2, Num(20))>>,
        !.issued = Len(sources) + 2]

\* App mounts: init() runs initializeDatabase and then loadData
AppInit ==
    /\ NoCall
    /\ \E sources \in StoredSources : db = StoredDb(sources)
    /\ store = InitialStore
    /\ page = InitialPage
    /\ calls = <<[op |-> "init", pc |-> "initialize"]>>

\* await savingsService.initialize(); await settingsService.initialize()
Initialize ==
    \E i \in DOMAIN calls :
        /\ calls[i].op = "init"
        /\ calls[i].pc = "initialize"
        /\ db' = settingsInitialize(savingsInitialize(db))
        /\ calls' = [calls EXCEPT ![i].pc = "getAll"]
        /\ UNCHANGED <<store, page>>
        /\ UNCHANGED callVars

\* const sources = await incomeService.getAll()
InitializeGetAll ==
    \E i \in DOMAIN calls :
        /\ calls[i].op = "init"
        /\ calls[i].pc = "getAll"
        /\ calls' = [calls EXCEPT
                       ![i] = [op |-> "init", pc |-> "generate",
                               sources |-> db.incomeSources]]
        /\ UNCHANGED <<db, store, page>>
        /\ UNCHANGED callVars

\* the loop over the sources, to the end of initializeDatabase; loadData then
\* runs to its first await: set({isLoading: true, error: null})
InitializeGenerate ==
    \E i \in DOMAIN calls :
        /\ calls[i].op = "init"
        /\ calls[i].pc = "generate"
        /\ db' = GenerateForSources(db, calls[i].sources, 1)
        /\ store' = [store EXCEPT !.isLoading = TRUE, !.error = <<>>]
        /\ calls' = [calls EXCEPT ![i] = [op |-> "init", pc |-> "loadData"]]
        /\ UNCHANGED page
        /\ UNCHANGED callVars

\* get().recalculate() up to its first await: the call returns at once when
\* savings or settings is null, else it keeps both for the calculation
EnterRecalculate(call, published) ==
    IF published.savings = <<>> \/ published.settings = <<>>
    THEN Finished(call)
    ELSE [pc |-> "recalculate",
          savings |-> published.savings[1],
          settings |-> published.settings[1]] @@ call

\* variant: the set(...) after the fetches without isLoading: false
LoadDataPublishedStillLoading ==
    [store EXCEPT !.incomeSources = db.incomeSources,
                  !.savings = db.savings,
                  !.settings = db.settings]

\* the four fetches of loadData and the set(...) after them
LoadDataPublished ==
    [store EXCEPT !.incomeSources = db.incomeSources,
                  !.savings = db.savings,
                  !.settings = db.settings,
                  !.isLoading = FALSE]

LoadData ==
    \E i \in DOMAIN calls :
        /\ calls[i].op = "init"
        /\ calls[i].pc = "loadData"
        /\ store' = LoadDataPublished
        /\ calls' = [calls EXCEPT ![i] = EnterRecalculate(@, LoadDataPublished)]
        /\ UNCHANGED <<db, page>>
        /\ UNCHANGED callVars

\* recalculate: the entries and the savings of the current month are fetched
RecalculateCurrentMonth ==
    \E i \in DOMAIN calls :
        /\ calls[i].pc = "recalculate"
        /\ calls' = [calls EXCEPT
                       ![i] = [pc |-> "recalculateYear",
                               currentMonthIncomes |->
                                   incomesGetByMonth(db.monthlyIncomes,
                                                     currentYear, currentMonth),
                               currentMonthSavings |->
                                   savingsGetByMonth(db.monthlySavings,
                                                     currentYear,
                                                     currentMonth)] @@ @]
        /\ UNCHANGED <<db, store, page>>
        /\ UNCHANGED callVars

\* variant: the results calculated from the entries published before the run
RecalculatedFromPublished(call) ==
    [store EXCEPT
        !.currentMonthIncomes = call.currentMonthIncomes,
        !.currentMonthSavings = call.currentMonthSavings,
        !.yearlyIncomes = YearlyIncomes(db.monthlyIncomes, currentYear),
        !.yearlySavings = savingsGetByYear(db.monthlySavings, currentYear),
        !.calculations =
            <<calculateResultsFromMonthlyData(
                  store.currentMonthIncomes,
                  YearlyIncomes(db.monthlyIncomes, currentYear),
                  call.savings.currentSavings, call.savings.alreadySaved,
                  call.settings.savingsPercentage)>>]

\* recalculate: the twelve months and the savings of the year are fetched, the
\* results are calculated and the five fields are set together
Recalculated(call) ==
    [store EXCEPT
        !.currentMonthIncomes = call.currentMonthIncomes,
        !.currentMonthSavings = call.currentMonthSavings,
        !.yearlyIncomes = YearlyIncomes(db.monthlyIncomes, currentYear),
        !.yearlySavings = savingsGetByYear(db.monthlySavings, currentYear),
        !.calculations =
            <<calculateResultsFromMonthlyData(
                  call.currentMonthIncomes,
                  YearlyIncomes(db.monthlyIncomes, currentYear),
                  call.savings.currentSavings, call.savings.alreadySaved,
                  call.settings.savingsPercentage)>>]

RecalculateYear ==
    \E i \in DOMAIN calls :
        /\ calls[i].pc = "recalculateYear"
        /\ store' = Recalculated(calls[i])
        /\ calls' = [calls EXCEPT ![i] = Finished(@)]
        /\ UNCHANGED <<db, page>>
        /\ UNCHANGED callVars

Recalculating(i) == calls[i].pc \in {"recalculate", "recalculateYear"}

\* recalculate: one of its fetches rejects; catch (error) { console.error }
RecalculateFails ==
    \E i \in DOMAIN calls :
        /\ Recalculating(i)
        /\ calls' = [calls EXCEPT ![i] = Finished(@)]
        /\ UNCHANGED <<db, store, page>>
        /\ UNCHANGED callVars

\* error instanceof Error ? error.message : 'Failed to load data'
LoadMessages == {"Failed to load data"}

\* loadData: one of the four fetches rejects;
\* catch (error) { set({error, isLoading: false}) }
LoadDataFails ==
    \E i \in DOMAIN calls, message \in LoadMessages :
        /\ calls[i].op = "init"
        /\ calls[i].pc = "loadData"
        /\ store' = [store EXCEPT !.error = <<message>>, !.isLoading = FALSE]
        /\ calls' = [calls EXCEPT ![i] = Finished(@)]
        /\ UNCHANGED <<db, page>>
        /\ UNCHANGED callVars

\* a handler is started by the user: room for one more call
CanStart == Len(calls) < MaxCalls

\* the store's addIncomeSource, updateIncomeSource and deleteIncomeSource, up
\* to the first await
AddIncomeSource ==
    \E source \in FormSources :
        /\ CanStart
        /\ calls' = Append(calls, [op |-> "addIncomeSource", pc |-> "service", source |-> source])
        /\ UNCHANGED <<db, store, page>>
        /\ UNCHANGED callVars

UpdateIncomeSource ==
    \E j \in DOMAIN store.incomeSources, updates \in FormSources :
        /\ CanStart
        /\ calls' = Append(calls, [op |-> "updateIncomeSource", pc |-> "service",
                                   id |-> store.incomeSources[j].id, updates |-> updates])
        /\ UNCHANGED <<db, store, page>>
        /\ UNCHANGED callVars

DeleteIncomeSource ==
    \E j \in DOMAIN store.incomeSources :
        /\ CanStart
        /\ calls' = Append(calls, [op |-> "deleteIncomeSource", pc |-> "service",
                                   id |-> store.incomeSources[j].id])
        /\ UNCHANGED <<db, store, page>>
        /\ UNCHANGED callVars

UpdateSavings ==
    \E data \in SavingsForms :
        /\ CanStart
        /\ calls' = Append(calls, [op |-> "updateSavings", pc |-> "service", data |-> data])
        /\ UNCHANGED <<db, store, page>>
        /\ UNCHANGED callVars

UpdateSettings ==
    \E updates \in SettingsForms :
        /\ CanStart
        /\ calls' = Append(calls, [op |-> "updateSettings", pc |-> "service", updates |-> updates])
        /\ UNCHANGED <<db, store, page>>
        /\ UNCHANGED callVars

\* await incomeService.add(source) and the like
ServiceDone(call) ==
    CASE call.op = "addIncomeSource" -> incomeAdd(db, call.source)
      [] call.op = "updateIncomeSource" ->
             incomeUpdate(db, call.id, call.updates)
      [] call.op = "deleteIncomeSource" -> incomeDelete(db, call.id)
      [] call.op = "updateSavings" -> savingsServiceUpdate(db, call.data)
      [] call.op = "updateSettings" -> settingsServiceUpdate(db, call.updates)

\* the parameters stay in scope for the rest of the action; incomeService.add
\* resolves to the id it issued
Served(call, d) ==
    IF call.op = "addIncomeSource"
    THEN [pc |-> "refresh", id |-> randomUUID(d)] @@ call
    ELSE [pc |-> "refresh"] @@ call

StoreActions ==
    { "addIncomeSource", "updateIncomeSource", "deleteIncomeSource",
      "updateSavings", "updateSettings" }

StoreService ==
    \E i \in DOMAIN calls :
        /\ calls[i].op \in StoreActions
        /\ calls[i].pc = "service"
        /\ db' = ServiceDone(calls[i])
        /\ calls' = [calls EXCEPT ![i] = Served(@, db)]
        /\ UNCHANGED <<store, page>>
        /\ UNCHANGED callVars

\* const incomeSources = await incomeService.getAll(); set({incomeSources})
\* and the like for savings and settings
Refreshed(call) ==
    CASE call.op = "updateSavings" -> [store EXCEPT !.savings = db.savings]
      [] call.op = "updateSettings" -> [store EXCEPT !.settings = db.settings]
      [] OTHER -> [store EXCEPT !.incomeSources = db.incomeSources]

StoreRefresh ==
    \E i \in DOMAIN calls :
        /\ calls[i].op \in StoreActions
        /\ calls[i].pc = "refresh"
        /\ store' = Refreshed(calls[i])
        /\ calls' = [calls EXCEPT
                       ![i] = EnterRecalculate(@, Refreshed(calls[i]))]
        /\ UNCHANGED <<db, page>>
        /\ UNCHANGED callVars

\* the entries the page shows for the months the user acts on
Shown ==
    LET OnPage(income) ==
            income.year = currentYear /\ income.month \in PageMonths
    IN  SelectSeq(db.monthlyIncomes, OnPage)

\* onClick of an entry: handleToggleActive(income.id)
HandleToggleActive ==
    \E j \in DOMAIN Shown :
        /\ CanStart
        /\ calls' = Append(calls, [op |-> "handleToggleActive", pc |-> "get", id |-> Shown[j].id])
        /\ UNCHANGED <<db, store, page>>
        /\ UNCHANGED callVars

\* const income = await db.monthlyIncomes.get(id)
ToggleActiveGet ==
    \E i \in DOMAIN calls :
        /\ calls[i].op = "handleToggleActive"
        /\ calls[i].pc = "get"
        /\ calls' = [calls EXCEPT
                       ![i] = [op |-> @.op, pc |-> "update", id |-> @.id,
                               income |-> TableGet(db.monthlyIncomes, @.id)]]
        /\ UNCHANGED <<db, store, page>>
        /\ UNCHANGED callVars

\* if (income) await db.monthlyIncomes.update(id, {isActive: !income.isActive})
ToggleActiveUpdate ==
    \E i \in DOMAIN calls :
        /\ calls[i].op = "handleToggleActive"
        /\ calls[i].pc = "update"
        /\ db' = IF calls[i].income = <<>> THEN db
                 ELSE toggleUpdate(db, calls[i].id, calls[i].income[1])
        /\ calls' = [calls EXCEPT
                       ![i] = [op |-> @.op, pc |-> "loadMonthlyData"]]
        /\ UNCHANGED <<store, page>>
        /\ UNCHANGED callVars

\* the form of a one-time income is submitted: handleSubmit
HandleSubmit ==
    \E month \in PageMonths, text \in OneTimeTexts :
        /\ CanStart
        /\ calls' = Append(calls, [op |-> "handleSubmit", pc |-> "addOneTime", month |-> month,
                                   amount |-> parseFloat(text)])
        /\ UNCHANGED <<db, store, page>>
        /\ UNCHANGED callVars

\* await monthlyIncomeService.addOneTime({...})
SubmitAddOneTime ==
    \E i \in DOMAIN calls :
        /\ calls[i].op = "handleSubmit"
        /\ calls[i].pc = "addOneTime"
        /\ db' = addOneTime(db, currentYear, calls[i].month, calls[i].amount,
                            "freelance")
        /\ calls' = [calls EXCEPT
                       ![i] = [op |-> @.op, pc |-> "loadMonthlyData"]]
        /\ UNCHANGED <<store, page>>
        /\ UNCHANGED callVars

\* the delete button of an entry, confirmed: handleDeleteIncome(id)
HandleDeleteIncome ==
    \E j \in DOMAIN Shown :
        /\ CanStart
        /\ calls' = Append(calls, [op |-> "handleDeleteIncome", pc |-> "delete",
                                   id |-> Shown[j].id])
        /\ UNCHANGED <<db, store, page>>
        /\ UNCHANGED callVars

\* await monthlyIncomeService.delete(id)
DeleteIncomeDelete ==
    \E i \in DOMAIN calls :
        /\ calls[i].op = "handleDeleteIncome"
        /\ calls[i].pc = "delete"
        /\ db' = monthlyIncomeDelete(db, calls[i].id)
        /\ calls' = [calls EXCEPT
                       ![i] = [op |-> @.op, pc |-> "loadMonthlyData"]]
        /\ UNCHANGED <<store, page>>
        /\ UNCHANGED callVars

AppNext ==
    \/ Initialize
    \/ InitializeGetAll
    \/ InitializeGenerate
    \/ LoadData
    \/ LoadDataFails
    \/ RecalculateCurrentMonth
    \/ RecalculateYear
    \/ RecalculateFails
    \/ AddIncomeSource
    \/ UpdateIncomeSource
    \/ DeleteIncomeSource
    \/ UpdateSavings
    \/ UpdateSettings
    \/ StoreService
    \/ StoreRefresh
    \/ HandleToggleActive
    \/ ToggleActiveGet
    \/ ToggleActiveUpdate
    \/ HandleSubmit
    \/ SubmitAddOneTime
    \/ HandleDeleteIncome
    \/ DeleteIncomeDelete
    \/ LoadMonthlyData

AppSpec == AppInit /\ [][AppNext]_vars

\* the fetches loadData and recalculate await settle, fulfilled or rejected:
\* a run that waits for them goes on
LoadDataSettles == LoadDataFails \/ LoadData

RecalculateSettles ==
    RecalculateFails \/ RecalculateCurrentMonth \/ RecalculateYear

FairAppSpec ==
    AppSpec /\ WF_vars(LoadDataSettles) /\ WF_vars(RecalculateSettles)

\* the entries of the current month, as monthlyIncomeService.getByMonth
\* returns them
MonthEntries == incomesGetByMonth(db.monthlyIncomes, currentYear, currentMonth)

\* generateFromSource called for every source, on a table without entries
RECURSIVE MaterializeFrom(_, _, _)
MaterializeFrom(d, sources, i) ==
    IF i > Len(sources) \/ d.issued < 0 THEN d
    ELSE MaterializeFrom(generateFromSource(d, sources[i], currentYear,
                                            currentMonth, 12),
                         sources, i + 1)

Materialized(sources) ==
    incomesGetByMonth(MaterializeFrom(EmptyDb, sources, 1).monthlyIncomes,
                      currentYear, currentMonth)

\* an entry without its identifier
Content(income) ==
    [incomeSourceId |-> income.incomeSourceId, amount |-> income.amount,
     type |-> income.type, isActive |-> income.isActive,
     isRecurring |-> income.isRecurring]

Occurrences(incomes, content) ==
    Cardinality({ i \in DOMAIN incomes : Content(incomes[i]) = content })

\* the same entries, whatever their identifiers and their order
SameEntries(a, b) ==
    /\ Len(a) = Len(b)
    /\ \A i \in DOMAIN a :
           Occurrences(a, Content(a[i])) = Occurrences(b, Content(a[i]))

\* start-up has generated the entries, and the current month holds exactly
\* the entries generateFromSource makes of the stored sources
MonthIsMaterialized ==
    /\ calls[1].op = "init"
    /\ calls[1].pc \notin {"initialize", "getAll", "generate"}
    /\ SameEntries(MonthEntries, Materialized(db.incomeSources))

\* C19: when a month's entries are exactly those materialized from the
\* sources by generateFromSource, the income of the month calculated from the
\* entries equals the monthly income calculated from the sources, and the two
\* breakdowns have the same rows
C19_ModesAreEquivalent ==
    MonthIsMaterialized =>
        /\ NumEq(calculateMonthlyIncomeFromData(MonthEntries),
                 calculateMonthlyIncome(db.incomeSources))
        /\ calculateIncomeBreakdownFromData(MonthEntries)
               = calculateIncomeBreakdown(db.incomeSources)

\* the month holds entries generated from the sources, among them one of a
\* source that is not monthly and so has no entry
C19_Witness ==
    /\ MonthIsMaterialized
    /\ MonthEntries # <<>>
    /\ \E i \in DOMAIN db.incomeSources :
           db.incomeSources[i].frequency # "monthly"

\* calculateResultsFromMonthlyData over what is persisted now
PersistedResults ==
    calculateResultsFromMonthlyData(
        MonthEntries, YearlyIncomes(db.monthlyIncomes, currentYear),
        db.savings[1].currentSavings, db.savings[1].alreadySaved,
        db.settings[1].savingsPercentage)

\* C20: every mutation of a persisted record that feeds the calculation is
\* followed by a recompute and publish: whenever no operation is in flight,
\* the store's calculations are calculateResultsFromMonthlyData over the
\* persisted entries of the current month and year
C20_CalculationsFollowPersisted ==
    Quiescent => store.calculations = <<PersistedResults>>

\* an entry of the current month was toggled on the page after start-up, and
\* nothing is in flight
C20_Witness ==
    /\ Quiescent
    /\ \E i \in DOMAIN calls : calls[i].op = "handleToggleActive"

\* ---------------------------------------------------------------------------
\* C21, C29: the store's income source actions and the monthly entries
\* ---------------------------------------------------------------------------

HasCurrentEntry(d, id, amount) ==
    \E k \in DOMAIN d.monthlyIncomes :
        /\ d.monthlyIncomes[k].year = currentYear
        /\ d.monthlyIncomes[k].month = currentMonth
        /\ d.monthlyIncomes[k].incomeSourceId = id
        /\ d.monthlyIncomes[k].amount = amount

\* the source a call of addIncomeSource or updateIncomeSource hands over
Handed(call) ==
    IF call.op = "addIncomeSource" THEN call.source ELSE call.updates

MonthlyThroughStore(call) ==
    /\ call.op \in {"addIncomeSource", "updateIncomeSource"}
    /\ call.pc \notin {"service", "done"}
    /\ Handed(call).frequency = "monthly"

Completes(i) == InFlight(i) /\ calls'[i].pc = "done"

\* C21: when addIncomeSource or updateIncomeSource of the store completes for
\* a source of monthly frequency, the current month has an entry that
\* references the source and carries its amount
C21_MonthlySourceHasCurrentEntry ==
    [][\A i \in DOMAIN calls :
           MonthlyThroughStore(calls[i]) /\ Completes(i)
               => HasCurrentEntry(db', calls[i].id, Handed(calls[i]).amount)]_vars

\* addIncomeSource of a monthly source has stored the source and is about to
\* complete
C21_Witness ==
    \E i \in DOMAIN calls :
        /\ calls[i].op = "addIncomeSource"
        /\ calls[i].pc = "recalculateYear"
        /\ MonthlyThroughStore(calls[i])
        /\ TableGet(db.incomeSources, calls[i].id) # <<>>
        /\ ~HasCurrentEntry(db, calls[i].id, Handed(calls[i]).amount)

\* ---------------------------------------------------------------------------
\* C22: the services of the single savings record and the single settings
\* record, one await at a time
\* ---------------------------------------------------------------------------

SingletonTables == {"savings", "settings"}

\* the data initialize() hands to update()
Defaults(table) ==
    IF table = "savings"
    THEN [currentSavings |-> Zero(0), alreadySaved |-> Zero(0)]
    ELSE [savingsPercentage |-> Num(20)]

\* the data the forms hand to update()
FormData(table) == IF table = "savings" THEN SavingsForms ELSE SettingsForms

\* the record update() writes: { ...data, id }
Stored(table, id, data) ==
    IF table = "savings"
    THEN SavingsRecord(id, data.currentSavings, data.alreadySaved)
    ELSE SettingsRecord(id, data.savingsPercentage)

\* await db.savings.update(existing.id, {...}): a key no record has changes
\* nothing
TableUpdate(d, table, id, data) ==
    [d EXCEPT ![table] =
        [i \in DOMAIN @ |-> IF @[i].id = id THEN Stored(table, id, data)
                                             ELSE @[i]]]

\* const id = crypto.randomUUID(); await db.savings.add({...})
TableInsert(d, table, data) ==
    [d EXCEPT ![table] = TableAdd(@, Stored(table, randomUUID(d), data)),
              !.issued = randomUUID(d)]

ServiceCall(op, table, at, data) ==
    [op |-> op, pc |-> at, table |-> table, data |-> data, existing |-> <<>>]

\* what follows the service: initializeDatabase goes on from the savings to
\* the settings; its generation of monthly entries touches neither table
AfterService(call) ==
    IF call.op = "initializeDatabase" /\ call.table = "savings"
    THEN ServiceCall(call.op, "settings", "initialize", Defaults("settings"))
    ELSE Finished(call)

\* a former run left nothing, or one record in each table
SingletonInit ==
    /\ NoCall
    /\ db \in {EmptyDb, StoredDb(<<>>)}
    /\ store = InitialStore
    /\ page = InitialPage
    /\ calls = <<>>

\* App's effect runs init(): initializeDatabase up to its first await
RunInitializeDatabase ==
    /\ CanStart
    /\ calls' = Append(calls, ServiceCall("initializeDatabase", "savings", "initialize",
                                          Defaults("savings")))
    /\ UNCHANGED <<db, store, page>>
    /\ UNCHANGED callVars

\* savingsService.initialize() and settingsService.initialize()
CallInitialize ==
    \E table \in SingletonTables :
        /\ CanStart
        /\ calls' = Append(calls, ServiceCall("initialize", table, "initialize", Defaults(table)))
        /\ UNCHANGED <<db, store, page>>
        /\ UNCHANGED callVars

\* savingsService.update(data) and settingsService.update(data)
CallUpdate ==
    \E table \in SingletonTables : \E data \in FormData(table) :
        /\ CanStart
        /\ calls' = Append(calls, ServiceCall("update", table, "update", data))
        /\ UNCHANGED <<db, store, page>>
        /\ UNCHANGED callVars

\* initialize: const existing = await this.get(); if (!existing) ...
InitializeGet ==
    \E i \in DOMAIN calls :
        /\ calls[i].pc = "initialize"
        /\ calls' = [calls EXCEPT
                       ![i] = IF First(db[@.table]) # <<>>
                              THEN AfterService(@)
                              ELSE [@ EXCEPT !.pc = "update"]]
        /\ UNCHANGED <<db, store, page>>
        /\ UNCHANGED callVars

\* update: const existing = await this.get()
UpdateGet ==
    \E i \in DOMAIN calls :
        /\ calls[i].pc = "update"
        /\ calls' = [calls EXCEPT ![i].pc = "write",
                                  ![i].existing = First(db[calls[i].table])]
        /\ UNCHANGED <<db, store, page>>
        /\ UNCHANGED callVars

\* update: if (existing) await db.savings.update(existing.id, ...)
\*         else await db.savings.add(...)
UpdateWrite ==
    \E i \in DOMAIN calls :
        /\ calls[i].pc = "write"
        /\ db' = IF calls[i].existing # <<>>
                 THEN TableUpdate(db, calls[i].table,
                                  calls[i].existing[1].id, calls[i].data)
                 ELSE TableInsert(db, calls[i].table, calls[i].data)
        /\ calls' = [calls EXCEPT ![i] = AfterService(@)]
        /\ UNCHANGED <<store, page>>
        /\ UNCHANGED callVars

SingletonNext ==
    \/ RunInitializeDatabase
    \/ CallInitialize
    \/ CallUpdate
    \/ InitializeGet
    \/ UpdateGet
    \/ UpdateWrite

SingletonSpec == SingletonInit /\ [][SingletonNext]_vars

\* C22: after any interleaving of initialize and update of the two services,
\* two overlapping runs of initializeDatabase included, the savings table and
\* the settings table hold at most one record each
C22_AtMostOneRecord ==
    /\ Len(db.savings) <= 1
    /\ Len(db.settings) <= 1

\* two runs of initializeDatabase overlap on an empty database
C22_Witness ==
    /\ Len(calls) = 2
    /\ \A i \in DOMAIN calls :
           /\ calls[i].op = "initializeDatabase"
           /\ calls[i].pc = "write"
           /\ calls[i].table = "savings"
           /\ calls[i].existing = <<>>

\* ---------------------------------------------------------------------------
\* C23: the savings rates the Dashboard derives from the published state
\* ---------------------------------------------------------------------------

\* yearlySavings.reduce((sum, s) => sum + s.savedAmount, 0), from index i on
RECURSIVE ReduceSaved(_, _, _)
ReduceSaved(rows, i, sum) ==
    IF i > Len(rows) THEN sum
    ELSE ReduceSaved(rows, i + 1, NumAdd(sum, rows[i].savedAmount))

\* record?.savedAmount || 0
SavedOrZero(record) ==
    IF record = <<>> THEN Zero(0) ELSE OrZeroNumber(record[1].savedAmount)

\* yearlySavings.find(s => s.month === month)
FindMonth(rows, month) ==
    LET OfMonth(r) == r.month = month
    IN  First(SelectSeq(rows, OfMonth))

\* monthIncomes.filter(income => income.isActive).reduce(...)
MonthIncome(monthIncomes) ==
    ReduceAmount(SelectSeq(monthIncomes, IsActive), 1, Zero(0))

\* (saved / income) * 100
Rate(saved, income) == NumMul(NumDiv(saved, income), Num(100))

\* income > 0 ? (saved / income) * 100 : 0
GuardedRate(saved, income) ==
    IF NumGt(income, Zero(0)) THEN Rate(saved, income) ELSE Zero(0)

\* yearlySavings.length > 0 ? (sum / yearlyIncome) * 100 : '0.0'
AverageRate(yearlySavings, yearlyIncome) ==
    IF Len(yearlySavings) > 0
    THEN Rate(ReduceSaved(yearlySavings, 1, Zero(0)), yearlyIncome)
    ELSE Zero(0)

\* the three rates of one render, as the numbers handed to toFixed(1)
Dashboard(st) ==
    [realSavingsPercentage |->
         GuardedRate(SavedOrZero(st.currentMonthSavings),
                     st.calculations[1].monthlyIncome),
     percentage |->
         [month \in 1..12 |->
             GuardedRate(SavedOrZero(FindMonth(st.yearlySavings, month)),
                         MonthIncome(MonthIncomes(st.yearlyIncomes, month)))],
     averageSavingsRate |->
         AverageRate(st.yearlySavings, st.calculations[1].yearlyIncome)]

DashboardEntry(id, month, amount, isActive) ==
    MonthlyIncomeRecord(id, currentYear, month, NoSource, amount, "freelance",
                        isActive, FALSE)

\* the entries and the monthly savings a former run left
DashboardIncomes ==
    { <<>>,
      <<DashboardEntry(3, 11, Num(3000), TRUE)>>,
      <<DashboardEntry(3, 11, Num(3000), FALSE)>>,
      <<DashboardEntry(3, 11, Zero(0), TRUE)>>,
      <<DashboardEntry(3, 12, Num(3000), TRUE)>>,
      <<DashboardEntry(3, 10, Num(100), TRUE)>>,
      <<DashboardEntry(3, 11, Num(3000), TRUE),
        DashboardEntry(4, 12, Num(100), TRUE)>> }

DashboardSavings ==
    { <<>>,
      <<MonthlySavingsRecord(5, currentYear, 11, Num(250))>>,
      <<MonthlySavingsRecord(5, currentYear, 11, Zero(0))>>,
      <<MonthlySavingsRecord(5, currentYear, 12, Num(250))>>,
      <<MonthlySavingsRecord(5, currentYear, 10, Num(50))>>,
      <<MonthlySavingsRecord(5, currentYear, 11, Num(250)),
        MonthlySavingsRecord(6, currentYear, 12, Num(50))>> }

DashboardInit ==
    /\ NoCall
    /\ \E incomes \in DashboardIncomes, saved \in DashboardSavings :
           db = [StoredDb(<<>>) EXCEPT !.monthlyIncomes = incomes,
                                       !.monthlySavings = saved,
                                       !.issued = 6]
    /\ store = InitialStore
    /\ page = InitialPage
    /\ calls = <<>>

\* loadData and its recalculate with nothing else running: the state the
\* Dashboard is rendered from
DashboardLoad ==
    /\ store.calculations = <<>>
    /\ store' =
         [LoadDataPublished EXCEPT
            !.currentMonthIncomes =
                incomesGetByMonth(db.monthlyIncomes, currentYear, currentMonth),
            !.currentMonthSavings =
                savingsGetByMonth(db.monthlySavings, currentYear, currentMonth),
            !.yearlyIncomes = YearlyIncomes(db.monthlyIncomes, currentYear),
            !.yearlySavings = savingsGetByYear(db.monthlySavings, currentYear),
            !.calculations = <<PersistedResults>>]
    /\ UNCHANGED <<db, page, calls>>
    /\ UNCHANGED callVars

\* if (!calculations || !settings || !savings) return Loading; else the render
DashboardRender ==
    /\ pc = "done"
    /\ fn = "none"
    /\ store.calculations # <<>>
    /\ store.settings # <<>>
    /\ store.savings # <<>>
    /\ fn' = "Dashboard"
    /\ result' = Dashboard(store)
    /\ UNCHANGED <<pc, args, earlier>>
    /\ UNCHANGED appVars

DashboardNext ==
    \/ DashboardLoad
    \/ DashboardRender

DashboardSpec == DashboardInit /\ [][DashboardNext]_vars

Rendered == pc = "done" /\ fn = "Dashboard"

IsZeroIncome(income) == NumEq(income, Zero(0))

\* C23: every savings rate the dashboard derives is 0 when the income total
\* it is taken of is 0: the rate of the current month, the rate of each month
\* and the yearly average, also when savings records exist for a year without
\* income
C23_RatesAreZeroWithoutIncome ==
    Rendered =>
        /\ IsZeroIncome(store.calculations[1].monthlyIncome)
               => NumEq(result.realSavingsPercentage, Zero(0))
        /\ \A month \in 1..12 :
               IsZeroIncome(MonthIncome(MonthIncomes(store.yearlyIncomes, month)))
                   => NumEq(result.percentage[month], Zero(0))
        /\ IsZeroIncome(store.calculations[1].yearlyIncome)
               => NumEq(result.averageSavingsRate, Zero(0))

\* a render with savings recorded in a year without income
C23_Witness ==
    /\ Rendered
    /\ IsZeroIncome(store.calculations[1].yearlyIncome)
    /\ Len(store.yearlySavings) > 0

\* ---------------------------------------------------------------------------
\* C24, C25: recalculate
\* ---------------------------------------------------------------------------

\* calculateResultsFromMonthlyData over what the store publishes now
PublishedResults ==
    calculateResultsFromMonthlyData(
        store.currentMonthIncomes, store.yearlyIncomes,
        store.savings[1].currentSavings, store.savings[1].alreadySaved,
        store.settings[1].savingsPercentage)

\* C24: once every overlapping action that triggers recalculate has
\* completed, the published calculations are the ones computed from the
\* published savings and settings; a recalculate that started earlier and
\* finished later has not overwritten them with stale values
C24_CalculationsFollowPublished ==
    (Quiescent /\ store.savings # <<>> /\ store.settings # <<>>)
        => store.calculations = <<PublishedResults>>

\* two runs of recalculate overlap
C24_Witness ==
    \E i, j \in DOMAIN calls :
        /\ i # j
        /\ Recalculating(i)
        /\ Recalculating(j)
        /\ calls[i].savings # calls[j].savings

\* the five fields recalculate sets, and the fields it leaves alone
FiveFields(st) ==
    <<st.currentMonthIncomes, st.currentMonthSavings, st.yearlyIncomes,
      st.yearlySavings, st.calculations>>

OtherFields(st) ==
    <<st.incomeSources, st.savings, st.settings, st.isLoading, st.error>>

EndsRecalculate(i) == Recalculating(i) /\ calls'[i].pc = "done"

\* recalculate returns at its first line: savings or settings is null
ReturnsAtOnce(i) ==
    /\ calls[i].pc \in {"loadData", "refresh"}
    /\ calls'[i].pc = "done"

\* the five fields are set in this step, each obtained in run i: the entries
\* and the savings of the current month fetched earlier in the run, the
\* year's fetched last, the results calculated from the run's entries and the
\* savings and settings the run started with
PublishesRun(i) ==
    /\ calls[i].pc = "recalculateYear"
    /\ store'.currentMonthIncomes = calls[i].currentMonthIncomes
    /\ store'.currentMonthSavings = calls[i].currentMonthSavings
    /\ store'.yearlyIncomes = YearlyIncomes(db.monthlyIncomes, currentYear)
    /\ store'.yearlySavings = savingsGetByYear(db.monthlySavings, currentYear)
    /\ store'.calculations =
           <<calculateResultsFromMonthlyData(
                 calls[i].currentMonthIncomes, store'.yearlyIncomes,
                 calls[i].savings.currentSavings, calls[i].savings.alreadySaved,
                 calls[i].settings.savingsPercentage)>>
    /\ OtherFields(store') = OtherFields(store)

\* C25: recalculate is all-or-nothing.  A run ends either by setting the five
\* fields together, all obtained in that run, or without changing any field
\* of the store; the five fields change in no other step; a run that returns
\* at once because savings or settings is null, and a run one of whose
\* fetches fails, change none of the five and leave the error field alone
C25_RecalculateAllOrNothing ==
    [][/\ \A i \in DOMAIN calls :
              EndsRecalculate(i) => (store' = store \/ PublishesRun(i))
       /\ FiveFields(store') # FiveFields(store)
              => \E i \in DOMAIN calls : EndsRecalculate(i) /\ PublishesRun(i)
       /\ \A i \in DOMAIN calls :
              ReturnsAtOnce(i) => FiveFields(store') = FiveFields(store)
       /\ \A i \in DOMAIN calls :
              (ReturnsAtOnce(i) /\ calls[i].pc = "refresh")
                  => store'.error = store.error]_vars

\* a run that has fetched entries of the current month is about to set the
\* fields, or to fail, while the store publishes other entries
C25_Witness ==
    \E i \in DOMAIN calls :
        /\ calls[i].pc = "recalculateYear"
        /\ calls[i].currentMonthIncomes # <<>>
        /\ store.currentMonthIncomes # calls[i].currentMonthIncomes

\* recalculate returned at once: a store action completed while nothing was
\* loaded yet
C25_WitnessNull ==
    /\ store.savings = <<>>
    /\ \E i \in DOMAIN calls :
           calls[i].op \in StoreActions /\ calls[i].pc = "done"

\* ---------------------------------------------------------------------------
\* C26, C27: generateFromSource, called one call after another
\* ---------------------------------------------------------------------------

MaxGenerations == 2

\* the sources handed over: a monthly source, the same source after an edit
\* of its amount, type and activity, another monthly source, a weekly one
GenerateSources ==
    { SourceRecord(1, Salary3000),
      SourceRecord(1, Source(Num(100), "monthly", "freelance", FALSE)),
      SourceRecord(2, Source(Num(100), "monthly", "salary", TRUE)),
      SourceRecord(3, Freelance100) }

GenerateStartMonths == {1, 11, 12}

GenerateCounts == {0, 2, 14}

\* the table is empty, or holds a one-time entry of December
GenerateInit ==
    /\ NoCall
    /\ db \in {EmptyDb, addOneTime(EmptyDb, currentYear, 12, Num(50), "other")}
    /\ store = InitialStore
    /\ page = InitialPage
    /\ calls = <<>>

\* await monthlyIncomeService.generateFromSource(source, startYear,
\* startMonth, monthsCount), with no other operation on the table under way
Generate ==
    \E source \in GenerateSources, startMonth \in GenerateStartMonths,
       monthsCount \in GenerateCounts :
        /\ Len(calls) < MaxGenerations
        /\ fn' = "generateFromSource"
        /\ args' = [source |-> source, startYear |-> currentYear,
                    startMonth |-> startMonth, monthsCount |-> monthsCount]
        /\ earlier' = db
        /\ db' = generateFromSource(db, source, currentYear, startMonth,
                                    monthsCount)
        /\ calls' = Append(calls, Finished([op |-> "generateFromSource"]))
        /\ UNCHANGED <<pc, result, store, page>>

GenerateNext == Generate

GenerateSpec == GenerateInit /\ [][GenerateNext]_vars

Generated == fn = "generateFromSource"

Entries == {db.monthlyIncomes[k] : k \in DOMAIN db.monthlyIncomes}

EarlierEntries ==
    {earlier.monthlyIncomes[k] : k \in DOMAIN earlier.monthlyIncomes}

EarlierIds == {e.id : e \in EarlierEntries}

\* the entries the last call added
Created == {e \in Entries : e.id \notin EarlierIds}

SameSlot(a, b) ==
    /\ a.incomeSourceId = b.incomeSourceId
    /\ a.year = b.year
    /\ a.month = b.month

\* C26: calls of generateFromSource one after another, for the same source
\* with equal or overlapping ranges, leave at most one entry per
\* (incomeSourceId, year, month); a repeated call adds no entry for a month
\* that has one and changes no entry that exists
C26_GenerateIsIdempotent ==
    /\ \A k, l \in DOMAIN db.monthlyIncomes :
           (SameSlot(db.monthlyIncomes[k], db.monthlyIncomes[l])
            /\ db.monthlyIncomes[k].incomeSourceId # NoSource) => k = l
    /\ Generated =>
           /\ EarlierEntries \subseteq Entries
           /\ \A e \in Created : \A o \in EarlierEntries : ~SameSlot(e, o)

\* the second call was for the source of the first, edited in between, over
\* a range that overlaps the first's
C26_Witness ==
    /\ Generated
    /\ Len(calls) = 2
    /\ args.source.frequency = "monthly"
    /\ args.monthsCount = 14
    /\ Created # {}
    /\ \E o \in EarlierEntries :
           /\ o.incomeSourceId = args.source.id
           /\ o.amount # args.source.amount

\* the i-th calendar month from (startYear, startMonth), i counted from 0
MonthAfter(startYear, startMonth, i) ==
    [year |-> startYear + ((startMonth - 1 + i) \div 12),
     month |-> ((startMonth - 1 + i) % 12) + 1]

Covered ==
    {MonthAfter(args.startYear, args.startMonth, i) :
         i \in 0..(args.monthsCount - 1)}

HasEntryOf(source, slot) ==
    \E e \in Entries :
        /\ e.incomeSourceId = source.id
        /\ e.year = slot.year
        /\ e.month = slot.month

\* C27: for a monthly source and a start month in 1..12 generateFromSource
\* covers exactly monthsCount consecutive calendar months from (startYear,
\* startMonth), rolling over into the next year past December: each of them
\* has an entry of the source, the entries it creates lie in those months,
\* have a month in 1..12, isRecurring true and the source's amount, type and
\* isActive; for any other frequency it creates nothing
C27_GenerateCoversTheRange ==
    (Generated /\ args.startMonth \in 1..12) =>
        IF args.source.frequency = "monthly"
        THEN /\ Cardinality(Covered) = args.monthsCount
             /\ \A slot \in Covered : HasEntryOf(args.source, slot)
             /\ \A e \in Created :
                    /\ e.incomeSourceId = args.source.id
                    /\ [year |-> e.year, month |-> e.month] \in Covered
                    /\ e.month \in 1..12
                    /\ e.isRecurring
                    /\ e.amount = args.source.amount
                    /\ e.type = args.source.type
                    /\ e.isActive = args.source.isActive
        ELSE db = earlier

\* fourteen months from December were generated: the range crosses two ends
\* of a year
C27_Witness ==
    /\ Generated
    /\ args.source.frequency = "monthly"
    /\ args.startMonth = 12
    /\ args.monthsCount = 14
    /\ Cardinality(Created) = 14
    /\ \E e \in Created : e.year = currentYear + 2 /\ e.month = 1

EntriesOfSource(d, id) ==
    LET FromSource(income) == income.incomeSourceId = id
    IN  SelectSeq(d.monthlyIncomes, FromSource)

\* C29: every recurring entry references an income source that exists: when
\* deleteIncomeSource of the store completes, no monthly income entry with
\* the deleted id as incomeSourceId remains
C29_DeletedSourceLeavesNoEntries ==
    [][\A i \in DOMAIN calls :
           (calls[i].op = "deleteIncomeSource" /\ Completes(i))
               => EntriesOfSource(db', calls[i].id) = <<>>]_vars

\* deleteIncomeSource has deleted a source that has entries and is about to
\* complete
C29_Witness ==
    \E i \in DOMAIN calls :
        /\ calls[i].op = "deleteIncomeSource"
        /\ calls[i].pc = "recalculateYear"
        /\ TableGet(db.incomeSources, calls[i].id) = <<>>
        /\ EntriesOfSource(db, calls[i].id) # <<>>
        /\ calls[i].currentMonthIncomes # <<>>

\* ---------------------------------------------------------------------------
\* C30: loadData
\* ---------------------------------------------------------------------------

\* loadData has set isLoading and awaits its four fetches
LoadDataCalled(i) == calls[i].op = "init" /\ calls[i].pc = "loadData"

LoadDataEnded(i) == calls[i].pc = "done" /\ ~store.isLoading

\* the fetched sources, savings and settings are published with isLoading
\* false, nothing else changes, and recalculate follows
LoadDataSucceeds(i) ==
    /\ store' = [store EXCEPT !.incomeSources = db.incomeSources,
                              !.savings = db.savings,
                              !.settings = db.settings,
                              !.isLoading = FALSE]
    /\ IF db.savings = <<>> \/ db.settings = <<>>
       THEN calls'[i].pc = "done"
       ELSE /\ calls'[i].pc = "recalculate"
            /\ calls'[i].savings = db.savings[1]
            /\ calls'[i].settings = db.settings[1]

\* error is set to a message, isLoading to false, and what was published
\* stays as it was
LoadDataGivesUp(i) ==
    /\ store'.error # <<>>
    /\ store' = [store EXCEPT !.error = store'.error, !.isLoading = FALSE]
    /\ calls'[i].pc = "done"

C30_WitnessLoaded ==
    \E i \in DOMAIN calls :
        /\ calls[i].op = "init"
        /\ LoadDataEnded(i)
        /\ store.error = <<>>
        /\ store.calculations # <<>>

====
